---- MODULE Spec2Model ----
(***************************************************************************)
(* Model of the real-time simulation core of Super Student 6 (SS6):        *)
(* the pooled ParticleManager, the group-based level runners               *)
(* (NumbersLevel and the legacy game_loop), the colours level, the         *)
(* falling-object motion and the pairwise collision resolver.              *)
(*                                                                         *)
(* Each subsystem has its own variables and its own specification; the     *)
(* variables of the other subsystems are held at their idle values.        *)
(***************************************************************************)
EXTENDS Integers, Sequences, FiniteSets, TLC

(***************************************************************************)
(* ParticleManager  (src/utils/particle_system.py)                         *)
(***************************************************************************)
VARIABLES
    max_particles,      \* ParticleManager.max_particles
    particle_pool,      \* ParticleManager.particle_pool: sequence of particle dicts
    particles,          \* ParticleManager.particles: references (pool indices)
    culling_distance,   \* ParticleManager.culling_distance
    pm_result,          \* outcome of the last call: "init", "handle", "none", "raised",
                        \* "updated" (update returned), "ok" (another call returned)
    pm_calls            \* number of calls made on the manager so far

pmVars == <<max_particles, particle_pool, particles, culling_distance, pm_result,
            pm_calls>>

\* Pool capacities handed to the constructor (max_particles); 4 is the
\* smallest capacity at which set_adaptive_quality removes anything.
PoolCapacities == {0, 1, 2, 4}
\* Largest duration handed to create_particle.
MaxDuration == 2
\* Longest sequence of calls made on one manager.
MaxCalls == 7
\* Default culling distance set by the constructor.
DefaultCullingDistance == 1920

\* The dict appended to the pool by the constructor.
BlankParticle ==
    [x |-> 0, y |-> 0, color |-> 0, size |-> 0, dx |-> 0, dy |-> 0,
     duration |-> 0, start_duration |-> 0, active |-> FALSE]

\* Arguments of create_particle: (x, y, dx, dy) motion profiles that stay
\* inside the culling bound or leave it on the next update.
ParticleMotions ==
    { <<0, 0, 0, 0>>,
      <<2 * DefaultCullingDistance, -DefaultCullingDistance, 1, -1>> }

\* Mutant of OldestPos: the head of the list is taken, whatever its duration.
OldestPos_First(ps, pool) == 1

\* min(self.particles, key=lambda p: p["duration"]): position in the list of
\* the first element of minimal duration.
OldestPos(ps, pool) ==
    CHOOSE i \in 1..Len(ps) :
        /\ \A j \in 1..Len(ps) : pool[ps[j]].duration >= pool[ps[i]].duration
        /\ \A j \in 1..(i - 1) : pool[ps[j]].duration > pool[ps[i]].duration

\* `particle in self.particles`: list membership compares dicts by value.
InList(ps, pool, p) == \E i \in 1..Len(ps) : pool[ps[i]] = pool[p]

\* Mutant of ListRemove: the particle is never taken out of the list.
ListRemove_Keep(ps, pool, p) == ps

\* self.particles.remove(particle): drops the first element equal to it.
ListRemove(ps, pool, p) ==
    LET i == CHOOSE k \in 1..Len(ps) :
                 /\ pool[ps[k]] = pool[p]
                 /\ \A j \in 1..(k - 1) : pool[ps[j]] # pool[p]
    IN  SubSeq(ps, 1, i - 1) \o SubSeq(ps, i + 1, Len(ps))

\* release_particle(particle), as a function of the manager state.
Release(ps, pool, p) ==
    [ps   |-> IF InList(ps, pool, p) THEN ListRemove(ps, pool, p) ELSE ps,
     pool |-> [pool EXCEPT ![p].active = FALSE]]

\* get_particle(): index of the first inactive pool entry, 0 for None.
FirstInactive(pool) ==
    IF \E i \in 1..Len(pool) : ~pool[i].active
    THEN CHOOSE i \in 1..Len(pool) :
             /\ ~pool[i].active
             /\ \A j \in 1..(i - 1) : pool[j].active
    ELSE 0

\* The eviction guard of create_particle.
AtLimit(ps, limit) == Len(ps) >= limit

\* create_particle(x, y, color, size, dx, dy, duration).
CreateParticle(m, c, d) ==
    IF AtLimit(particles, max_particles) /\ particles = <<>>
    THEN \* min() of an empty list: ValueError leaves the manager untouched
         /\ pm_result' = "raised"
         /\ UNCHANGED <<max_particles, particle_pool, particles, culling_distance>>
    ELSE LET s1 == IF AtLimit(particles, max_particles)
                   THEN Release(particles, particle_pool,
                                particles[OldestPos(particles, particle_pool)])
                   ELSE [ps |-> particles, pool |-> particle_pool]
             g  == FirstInactive(s1.pool)
         IN  /\ IF g # 0
                THEN /\ particle_pool' =
                          [s1.pool EXCEPT ![g] =
                              [x |-> m[1], y |-> m[2], color |-> c, size |-> 1,
                               dx |-> m[3], dy |-> m[4], duration |-> d,
                               start_duration |-> d, active |-> TRUE]]
                     /\ particles' = Append(s1.ps, g)
                     /\ pm_result' = "handle"
                ELSE /\ particle_pool' = s1.pool
                     /\ particles' = s1.ps
                     /\ pm_result' = "none"
             /\ UNCHANGED <<max_particles, culling_distance>>

PM_Create ==
    \E m \in ParticleMotions, d \in 1..MaxDuration :
        CreateParticle(m, 0, d)

\* Inside the culling bound of update().
InBounds(p, cull) ==
    /\ -cull <= p.x /\ p.x <= cull * 2
    /\ -cull <= p.y /\ p.y <= cull * 2

\* The loop of update(): visits the list positions from i on, ageing the
\* referenced dict in place; returns the pool and the surviving references.
RECURSIVE UpdateFrom(_, _, _, _, _)
UpdateFrom(i, ps, pool, keep, cull) ==
    IF i > Len(ps) THEN [ps |-> keep, pool |-> pool]
    ELSE LET r == ps[i]
             p == pool[r]
         IN  IF ~p.active THEN UpdateFrom(i + 1, ps, pool, keep, cull)
             ELSE LET q == [p EXCEPT !.x = p.x + p.dx, !.y = p.y + p.dy,
                                     !.duration = p.duration - 1]
                  IN  IF q.duration <= 0 \/ ~InBounds(q, cull)
                      THEN UpdateFrom(i + 1, ps,
                               [pool EXCEPT ![r] = [q EXCEPT !.active = FALSE]],
                               keep, cull)
                      ELSE UpdateFrom(i + 1, ps, [pool EXCEPT ![r] = q],
                               Append(keep, r), cull)

\* update()
PM_Update ==
    /\ particles # <<>>
    /\ LET s == UpdateFrom(1, particles, particle_pool, <<>>, culling_distance)
       IN  /\ particles' = s.ps
           /\ particle_pool' = s.pool
    /\ pm_result' = "updated"
    /\ UNCHANGED <<max_particles, culling_distance>>

\* release_particle(particle) with any handle create_particle has handed out.
PM_Release ==
    \E p \in 1..Len(particle_pool) :
        /\ particle_pool[p] # BlankParticle
        /\ LET s == Release(particles, particle_pool, p)
           IN  /\ particles' = s.ps
               /\ particle_pool' = s.pool
        /\ pm_result' = "ok"
        /\ UNCHANGED <<max_particles, culling_distance>>

\* The loop of set_adaptive_quality: n releases of the oldest particle.
RECURSIVE ReleaseOldest(_, _, _)
ReleaseOldest(n, ps, pool) ==
    IF n = 0 \/ ps = <<>> THEN [ps |-> ps, pool |-> pool]
    ELSE LET s == Release(ps, pool, ps[OldestPos(ps, pool)])
         IN  ReleaseOldest(n - 1, s.ps, s.pool)

\* min(10, len(self.particles) // 4)
ParticlesToRemove(ps) == IF Len(ps) \div 4 < 10 THEN Len(ps) \div 4 ELSE 10

\* set_adaptive_quality(target_fps, current_fps) when the frame rate has
\* dropped below 80% of the target (otherwise the call changes nothing).
PM_SetAdaptiveQuality ==
    /\ ParticlesToRemove(particles) > 0
    /\ LET s == ReleaseOldest(ParticlesToRemove(particles), particles, particle_pool)
       IN  /\ particles' = s.ps
           /\ particle_pool' = s.pool
    /\ pm_result' = "ok"
    /\ UNCHANGED <<max_particles, culling_distance>>

\* cleanup()
PM_Cleanup ==
    /\ particles # <<>>
    /\ particle_pool' =
          [i \in 1..Len(particle_pool) |->
              IF \E k \in 1..Len(particles) : particles[k] = i
              THEN [particle_pool[i] EXCEPT !.active = FALSE]
              ELSE particle_pool[i]]
    /\ particles' = <<>>
    /\ pm_result' = "ok"
    /\ UNCHANGED <<max_particles, culling_distance>>

\* ParticleManager(max_particles)
PMInit ==
    /\ max_particles \in PoolCapacities
    /\ particle_pool = [i \in 1..max_particles |-> BlankParticle]
    /\ particles = <<>>
    /\ culling_distance = DefaultCullingDistance
    /\ pm_result = "init"
    /\ pm_calls = 0

\* The manager of a specification that does not exercise it.
PMIdle ==
    /\ max_particles = 0
    /\ particle_pool = <<>>
    /\ particles = <<>>
    /\ culling_distance = DefaultCullingDistance
    /\ pm_result = "init"
    /\ pm_calls = 0

(***************************************************************************)
(* Level runs: the legacy game_loop (src/SS6.origional.py), NumbersLevel   *)
(* (src/levels/numbers_level.py) and SuperStudentGame.run_level            *)
(* (src/main.py).  Positions and velocities of the falling objects are not *)
(* part of this state: a click is described by the set of live objects     *)
(* whose rectangle contains the point.                                     *)
(***************************************************************************)
VARIABLES
    program,    \* which entry script runs: "legacy" (SS6.origional.py) or
                \* "main" (main.py)
    pc,         \* "menu": no level is running; "run": inside a level loop;
                \* "ended": the level's run() has returned
    mode,       \* the mode of the current run, "none" in the menu
    level,      \* the fields of the level object / the locals of game_loop
    effects,    \* explosion lists, flamethrowers, LevelResourceManager state
    glass,      \* GlassShatterManager
    seen,       \* observations of the run: what the last frame drew, which
                \* collaborator calls were made
    colors      \* the fields of the ColorsLevel object

gameVars == <<program, pc, mode, level, effects, glass, seen, colors>>

VARIABLES
    game,       \* the SuperStudentGame object of main.py: error_count and
                \* running, and the number of handle_error calls made
    faults,     \* the step of NumbersLevel.run that raises in every frame,
                \* "none" if no step does
    touch,      \* the MultiTouchManager and the clock of pygame.time
    audio       \* an AudioManager, its TTS worker threads and the pygame
                \* event queue

appVars == <<game, faults, touch, audio>>

\* self.max_errors
max_errors == 5
\* Largest number of handle_error calls followed.
MaxErrorCalls == 7

\* SuperStudentGame.__init__
NewGame == [error_count |-> 0, running |-> TRUE, handled |-> 0]

\* Mutant of HandleError: the threshold has to be exceeded.
HandleError_Strict(G) ==
    LET n == G.error_count + 1
    IN  [G EXCEPT !.error_count = n, !.handled = @ + 1,
                  !.running = IF n > max_errors THEN FALSE ELSE @]

\* SuperStudentGame.handle_error(error, context)
HandleError(G) ==
    LET n == G.error_count + 1
    IN  [G EXCEPT !.error_count = n, !.handled = @ + 1,
                  !.running = IF n >= max_errors THEN FALSE ELSE @]

\* The steps of a frame of NumbersLevel.run that may raise in every frame.
FaultSites == {"none", "_update_numbers", "_draw_frame"}

\* Last frame number a run is followed to.
MaxFrames == 1175
\* Clicks and touches arrive only in frames whose number is a multiple of this.
InputPeriod == 30
\* Largest number of input frames of one run the player lets pass although
\* the game waits for its first click or the target is on screen.
MaxMissed == 2
\* Largest number of misclicks made in one run.
MaxMisclicks == 1
\* Largest number of objects under one click point.
MaxUnderPoint == 2

\* MAX_CRACKS of settings.py
MAX_CRACKS == 10
LETTER_SPAWN_INTERVAL == 60
GROUP_SIZE == 5
\* MAX_EXPLOSIONS["DEFAULT"], the cap of the legacy explosions list.
MAX_EXPLOSIONS == 5
\* max_effects["explosions"] handed to the LevelResourceManager by NumbersLevel.
LRM_MAX_EXPLOSIONS == 25
\* Duration of an explosion, of a flamethrower beam, and the checkpoint delay.
EXPLOSION_DURATION == 30
FLAME_DURATION == 10
\* Frames a centre-piece convergence stays in flight.
ConvergenceFrames == 20
CHECKPOINT_DELAY == 60
\* Particles created for one destroyed target, and their duration.
BURST_SIZE == 20
PARTICLE_DURATION == 20

\* SEQUENCES[mode]
SEQUENCES(m) ==
    IF m = "numbers"
    THEN <<"1", "2", "3", "4", "5", "6", "7", "8", "9", "10">>
    ELSE <<"a", "b", "c", "d", "e", "f", "g", "h", "i", "j", "k", "l", "m",
           "n", "o", "p", "q", "r", "s", "t", "u", "v", "w", "x", "y", "z">>

\* [sequence[i:i+GROUP_SIZE] for i in range(0, len(sequence), GROUP_SIZE)]
GroupsOf(seq) ==
    LET n == (Len(seq) + GROUP_SIZE - 1) \div GROUP_SIZE
    IN  [k \in 1..n |->
            SubSeq(seq, (k - 1) * GROUP_SIZE + 1,
                   IF k * GROUP_SIZE < Len(seq) THEN k * GROUP_SIZE ELSE Len(seq))]

Groups(m) == GroupsOf(SEQUENCES(m))

\* list.remove(v): the list without its first element equal to v.
RemoveFirst(seq, v) ==
    IF \E i \in 1..Len(seq) : seq[i] = v
    THEN LET i == CHOOSE k \in 1..Len(seq) :
                      seq[k] = v /\ \A j \in 1..(k - 1) : seq[j] # v
         IN  SubSeq(seq, 1, i - 1) \o SubSeq(seq, i + 1, Len(seq))
    ELSE seq

\* The first element of a list, "" standing for the None of an empty one.
FirstOrNone(seq) == IF seq = <<>> THEN "" ELSE seq[1]

\* The level state set by reset_level_state / by the start of game_loop
\* for a list of groups.  Group indices are 0-based as in the code.
ResetLevelStateWith(groups) ==
    LET current_group == IF groups = <<>> THEN <<>> ELSE groups[1]
    IN
    [groups |-> groups,
     current_group_index |-> 0,
     numbers_to_target |-> current_group,
     target_number |-> FirstOrNone(current_group),
     numbers_to_spawn |-> current_group,
     numbers |-> <<>>,
     total_destroyed |-> 0, overall_destroyed |-> 0,
     numbers_spawned |-> 0, numbers_destroyed |-> 0,
     last_checkpoint_triggered |-> 0, score |-> 0,
     running |-> TRUE, game_started |-> FALSE, frame_count |-> 0,
     checkpoint_waiting |-> FALSE, checkpoint_delay_frames |-> 0,
     just_completed_level |-> FALSE]

ResetLevelState(m) == ResetLevelStateWith(Groups(m))

\* No level object exists.
NoLevel ==
    [groups |-> <<>>, current_group_index |-> 0, numbers_to_target |-> <<>>, target_number |-> "",
     numbers_to_spawn |-> <<>>, numbers |-> <<>>,
     total_destroyed |-> 0, overall_destroyed |-> 0,
     numbers_spawned |-> 0, numbers_destroyed |-> 0,
     last_checkpoint_triggered |-> 0, score |-> 0,
     running |-> FALSE, game_started |-> FALSE, frame_count |-> 0,
     checkpoint_waiting |-> FALSE, checkpoint_delay_frames |-> 0,
     just_completed_level |-> FALSE]

\* Effect state after the resets at the start of game_loop; the
\* LevelResourceManager of a NumbersLevel is initialized at the top of run().
ResetEffects(m) ==
    [explosions |-> <<>>, flamethrowers |-> <<>>, convergence_timer |-> 0,
     shake_duration |-> 0, shake_magnitude |-> 0,
     lrm_initialized |-> (m = "numbers"), lrm_explosions |-> <<>>,
     lrm_lasers |-> <<>>, lrm_particles |-> <<>>,
     explosions_created |-> 0, particles_created |-> 0]

NoObservation ==
    [last_input |-> "none", shown_target |-> "", targets_at_draw |-> <<>>,
     drawn_target |-> {}, misclick_calls |-> 0, checkpoints |-> 0, missed |-> 0,
     reset_at_start |-> TRUE, raised |-> FALSE, game_over_calls |-> 0,
     frame_errors |-> 0, returned |-> "none", completion_screens |-> 0,
     effects_drawn |-> [lrm |-> 0, legacy |-> 0]]

\* GlassShatterManager.handle_misclick: one more crack.
HandleMisclick(g) == [g EXCEPT !.cracks = @ + 1]

\* GlassShatterManager.is_game_over_ready: the screen is broken once
\* MAX_CRACKS cracks have been made.
IsGameOverReady(g) == g.cracks >= MAX_CRACKS

\* GlassShatterManager.reset: back to Intact, no cracks.
GlassReset(g) == [g EXCEPT !.cracks = 0]

\* Position of the first element of minimal value in a list of durations.
MinPos(ds) ==
    CHOOSE i \in 1..Len(ds) :
        /\ \A j \in 1..Len(ds) : ds[j] >= ds[i]
        /\ \A j \in 1..(i - 1) : ds[j] > ds[i]

Max(a, b) == IF a >= b THEN a ELSE b

\* Mutant of LegacyCreateExplosionFor: at the cap the first explosion of
\* the list is replaced.
LegacyCreateExplosionFor_First(F, duration) ==
    LET kept == IF Len(F.explosions) >= MAX_EXPLOSIONS
                THEN Tail(F.explosions) ELSE F.explosions
    IN  [F EXCEPT !.explosions = Append(kept, duration),
                  !.explosions_created = @ + 1,
                  !.shake_duration = Max(@, 10)]

\* create_explosion(x, y, duration=duration) of the legacy program: at the
\* cap the explosion of least remaining duration is replaced; the screen
\* shake is triggered.
LegacyCreateExplosionFor(F, duration) ==
    LET kept == IF Len(F.explosions) >= MAX_EXPLOSIONS
                THEN LET i == MinPos(F.explosions)
                     IN  SubSeq(F.explosions, 1, i - 1)
                             \o SubSeq(F.explosions, i + 1, Len(F.explosions))
                ELSE F.explosions
    IN  [F EXCEPT !.explosions = Append(kept, duration),
                  !.explosions_created = @ + 1,
                  !.shake_duration = Max(@, 10)]

\* create_explosion(x, y) as the legacy loop calls it.
LegacyCreateExplosion(F) == LegacyCreateExplosionFor(F, EXPLOSION_DURATION)

\* LevelResourceManager.create_explosion: nothing before initialize(); at the
\* cap the first explosion of the list is dropped.
LrmCreateExplosion(F) ==
    IF ~F.lrm_initialized THEN F
    ELSE LET kept == IF Len(F.lrm_explosions) >= LRM_MAX_EXPLOSIONS
                     THEN Tail(F.lrm_explosions) ELSE F.lrm_explosions
         IN  [F EXCEPT !.lrm_explosions = Append(kept, EXPLOSION_DURATION),
                       !.explosions_created = @ + 1]

\* The effects of destroying a target: explosion, flame, convergence and a
\* burst of BURST_SIZE particles (the pool never refuses one).
DestructionEffects(m, F) ==
    LET F1 == IF m = "numbers" THEN LrmCreateExplosion(F) ELSE LegacyCreateExplosion(F)
    IN  [F1 EXCEPT !.flamethrowers = Append(@, FLAME_DURATION),
                   !.convergence_timer = ConvergenceFrames,
                   !.particles_created = @ + BURST_SIZE,
                   !.lrm_particles = IF m = "numbers" /\ F.lrm_initialized
                                     THEN Append(@, PARTICLE_DURATION) ELSE @]

\* Position of the object the click loop destroys: the first object under
\* the point whose value is the target; 0 if there is none.
TargetUnder(L, hit) ==
    IF \E i \in hit : L.numbers[i].value = L.target_number
    THEN CHOOSE i \in hit :
             /\ L.numbers[i].value = L.target_number
             /\ \A j \in hit : j < i => L.numbers[j].value # L.target_number
    ELSE 0

\* Mutant of AdvanceTarget: the target is not moved to the new head.
AdvanceTarget_Stale(L) ==
    [L EXCEPT !.numbers_to_target = RemoveFirst(@, L.target_number)]

\* "Update target": drop the target from the remaining targets and take the
\* new head, if there is one.
AdvanceTarget(L) ==
    LET rest == RemoveFirst(L.numbers_to_target, L.target_number)
    IN  [L EXCEPT !.numbers_to_target = rest,
                  !.target_number = IF rest # <<>> THEN rest[1] ELSE @]

\* Mutant of DestroyTarget: the score is raised by 1.
DestroyTarget_Score1(L, t) ==
    AdvanceTarget([L EXCEPT !.score = @ + 1,
                            !.numbers = RemoveFirst(@, L.numbers[t]),
                            !.numbers_destroyed = @ + 1])

\* Mutant of DestroyTarget: the destroyed object is not counted.
DestroyTarget_Uncounted(L, t) ==
    AdvanceTarget([L EXCEPT !.score = @ + 10,
                            !.numbers = RemoveFirst(@, L.numbers[t])])

\* The level-state part of a target hit on the object at position t.
DestroyTarget(L, t) ==
    AdvanceTarget([L EXCEPT !.score = @ + 10,
                            !.numbers = RemoveFirst(@, L.numbers[t]),
                            !.numbers_destroyed = @ + 1])

\* The wrong-target feedback of the legacy loop: a non-target object under
\* the point that the click loop visits sets a small shake.
WrongTargetVisited(L, hit, t) ==
    \E i \in hit : L.numbers[i].value # L.target_number /\ (t = 0 \/ i < t)

\* Mutant of IsMisclick: the game_started flag is tested the wrong way round.
IsMisclick_NotStarted(L, hit) == hit = {} /\ ~L.game_started

\* "if not hit_target and game_started"
IsMisclick(L, hit) == hit = {} /\ L.game_started

\* The click handling of a started game: _handle_click of NumbersLevel and
\* the MOUSEBUTTONUP / FINGERDOWN branches of the legacy loop.
HandleClick(m, L, F, G, S, hit) ==
    LET t  == TargetUnder(L, hit)
        F0 == IF m # "numbers" /\ WrongTargetVisited(L, hit, t)
              THEN [F EXCEPT !.shake_duration = 5, !.shake_magnitude = 3]
              ELSE F
    IN  [level   |-> IF t # 0 THEN DestroyTarget(L, t) ELSE L,
         effects |-> IF t # 0 THEN DestructionEffects(m, F0) ELSE F0,
         glass   |-> IF IsMisclick(L, hit) THEN HandleMisclick(G) ELSE G,
         seen    |-> IF IsMisclick(L, hit)
                     THEN [S EXCEPT !.misclick_calls = @ + 1] ELSE S]

\* The live objects a click point can lie in: the rectangle of an object is
\* empty until the object has been drawn once.
Drawn(L) == {i \in 1..Len(L.numbers) : L.numbers[i].drawn}

ClickPoints(L) == {h \in SUBSET Drawn(L) : Cardinality(h) <= MaxUnderPoint}

\* Mutant of SpawnNumbers: spawning does not wait for the first input.
SpawnNumbers_Unstarted(L) ==
    IF /\ L.numbers_to_spawn # <<>>
       /\ L.frame_count % LETTER_SPAWN_INTERVAL = 0
    THEN [L EXCEPT !.numbers = Append(@, [value |-> L.numbers_to_spawn[1],
                                          drawn |-> FALSE]),
                   !.numbers_to_spawn = Tail(@),
                   !.numbers_spawned = @ + 1]
    ELSE L

\* Mutant of SpawnNumbers: the frame counter is not consulted.
SpawnNumbers_EveryFrame(L) ==
    IF /\ L.game_started
       /\ L.numbers_to_spawn # <<>>
    THEN [L EXCEPT !.numbers = Append(@, [value |-> L.numbers_to_spawn[1],
                                          drawn |-> FALSE]),
                   !.numbers_to_spawn = Tail(@),
                   !.numbers_spawned = @ + 1]
    ELSE L

\* The spawning step of a frame.
SpawnNumbers(L) ==
    IF /\ L.game_started
       /\ L.numbers_to_spawn # <<>>
       /\ L.frame_count % LETTER_SPAWN_INTERVAL = 0
    THEN [L EXCEPT !.numbers = Append(@, [value |-> L.numbers_to_spawn[1],
                                          drawn |-> FALSE]),
                   !.numbers_to_spawn = Tail(@),
                   !.numbers_spawned = @ + 1]
    ELSE L

\* "Animations are mostly complete": the condition under which a waiting
\* checkpoint is shown.  particles_converging is an attribute of the centre
\* piece in NumbersLevel and a module global that stays False in the legacy
\* loop; neither loop creates lasers.
Settled(m, L, F) ==
    /\ L.checkpoint_delay_frames <= 0
    /\ Len(F.explosions) <= 1
    /\ Len(F.flamethrowers) <= 1
    /\ (m = "numbers" => F.convergence_timer = 0)

\* Mutant of AtNewThreshold: a checkpoint every 5 destructions.
AtNewThreshold_Five(L, od) ==
    /\ od > 0
    /\ od % 5 = 0
    /\ od \div 5 > L.last_checkpoint_triggered
    /\ ~L.just_completed_level

\* "We hit a new checkpoint threshold", od being the overall destroyed count.
AtNewThreshold(L, od) ==
    /\ od > 0
    /\ od % 10 = 0
    /\ od \div 10 > L.last_checkpoint_triggered
    /\ ~L.just_completed_level

\* The checkpoint step of a frame; cont is the answer of the checkpoint
\* screen (TRUE: continue, FALSE: menu) if the screen is shown.
CheckpointLogic(m, L, F, cont) ==
    LET od == L.total_destroyed + L.numbers_destroyed
        L1 == [L EXCEPT !.overall_destroyed = od]
    IN  IF L1.checkpoint_waiting
        THEN IF Settled(m, L1, F)
             THEN [L1 EXCEPT !.checkpoint_waiting = FALSE,
                             !.game_started = cont,
                             !.running = IF cont THEN @ ELSE FALSE]
             ELSE [L1 EXCEPT !.checkpoint_delay_frames = @ - 1]
        ELSE IF AtNewThreshold(L1, od)
             THEN [L1 EXCEPT !.last_checkpoint_triggered = od \div 10,
                             !.checkpoint_waiting = TRUE,
                             !.checkpoint_delay_frames = CHECKPOINT_DELAY]
             ELSE L1

\* "The current group is finished."
GroupFinished(L) ==
    L.numbers = <<>> /\ L.numbers_to_spawn = <<>> /\ L.numbers_to_target = <<>>

\* Mutant of LevelProgression: the counters of the finished group are kept.
LevelProgression_KeepCounters(m, L) ==
    IF ~GroupFinished(L) THEN L
    ELSE LET L1 == [L EXCEPT !.total_destroyed = @ + L.numbers_destroyed,
                             !.current_group_index = @ + 1,
                             !.just_completed_level = TRUE]
         IN  IF L1.current_group_index < Len(L.groups)
             THEN LET grp == L.groups[L1.current_group_index + 1]
                  IN  IF grp = <<>> THEN [L1 EXCEPT !.running = FALSE] ELSE
                      [L1 EXCEPT !.numbers_to_spawn = grp,
                                 !.numbers_to_target = grp,
                                 !.target_number = grp[1],
                                 !.just_completed_level = FALSE,
                                 !.game_started = TRUE,
                                 !.last_checkpoint_triggered =
                                     L1.overall_destroyed \div 10]
             ELSE [L1 EXCEPT !.running = FALSE]

\* Mutant of LevelProgression: the spawn queue is not refilled for the next
\* group.
LevelProgression_NoSpawnQueue(m, L) ==
    IF ~GroupFinished(L) THEN L
    ELSE LET L1 == [L EXCEPT !.total_destroyed = @ + L.numbers_destroyed,
                             !.current_group_index = @ + 1,
                             !.just_completed_level = TRUE]
         IN  IF L1.current_group_index < Len(L.groups)
             THEN LET grp == L.groups[L1.current_group_index + 1]
                  IN  IF grp = <<>> THEN [L1 EXCEPT !.running = FALSE] ELSE
                      [L1 EXCEPT !.numbers_to_target = grp,
                                 !.target_number = grp[1],
                                 !.numbers_destroyed = 0,
                                 !.numbers_spawned = 0,
                                 !.just_completed_level = FALSE,
                                 !.game_started = TRUE,
                                 !.last_checkpoint_triggered =
                                     L1.overall_destroyed \div 10]
             ELSE [L1 EXCEPT !.running = FALSE]

\* The progression step of a frame.  The result has running = FALSE when the
\* step leaves the loop (all groups completed, or the next group is empty).
LevelProgression(m, L) ==
    IF ~GroupFinished(L) THEN L
    ELSE LET L1 == [L EXCEPT !.total_destroyed = @ + L.numbers_destroyed,
                             !.current_group_index = @ + 1,
                             !.just_completed_level = TRUE]
         IN  IF L1.current_group_index < Len(L.groups)
             THEN LET grp == L.groups[L1.current_group_index + 1]
                  IN  IF grp = <<>> THEN [L1 EXCEPT !.running = FALSE] ELSE
                      [L1 EXCEPT !.numbers_to_spawn = grp,
                                 !.numbers_to_target = grp,
                                 !.target_number = grp[1],
                                 !.numbers_destroyed = 0,
                                 !.numbers_spawned = 0,
                                 !.just_completed_level = FALSE,
                                 !.game_started = TRUE,
                                 !.last_checkpoint_triggered =
                                     L1.overall_destroyed \div 10]
             ELSE [L1 EXCEPT !.running = FALSE]

\* The values of the live objects drawn in the target colour.
DrawnAsTarget(L) ==
    {L.numbers[i].value : i \in {j \in 1..Len(L.numbers) :
                                    L.numbers[j].value = L.target_number}}

\* Drawing the falling objects gives each its rectangle.
DrawNumbers(L) ==
    [L EXCEPT !.numbers = [i \in 1..Len(@) |-> [@[i] EXCEPT !.drawn = TRUE]]]

\* Durations after one ageing step that removes what has run out.
AgeAndDrop(ds) ==
    LET aged == [i \in 1..Len(ds) |-> ds[i] - 1]
    IN  SelectSeq(aged, LAMBDA d : d > 0)

\* The legacy explosion loop: an explosion is drawn and aged while its
\* duration is positive and removed on the frame after.
LegacyProcessExplosions(ds) ==
    LET kept == SelectSeq(ds, LAMBDA d : d > 0)
    IN  [i \in 1..Len(kept) |-> kept[i] - 1]

\* The effects a frame renders: LevelResourceManager.draw_effects draws the
\* explosions and lasers its lists hold when it is called, F being the
\* effects at that moment; the legacy explosion loop draws the explosions
\* whose duration is positive when it comes to them, G being the effects at
\* that moment.
EffectsDrawn(F, G) ==
    [lrm    |-> IF F.lrm_initialized
                THEN Len(F.lrm_explosions) + Len(F.lrm_lasers) ELSE 0,
     legacy |-> Len(SelectSeq(G.explosions, LAMBDA d : d > 0))]

\* The per-frame effect updates shared by both loops: flamethrower beams and
\* centre-piece convergence age, the legacy explosions are processed.
UpdateSharedEffects(F) ==
    [F EXCEPT !.flamethrowers = AgeAndDrop(@),
              !.convergence_timer = IF @ > 0 THEN @ - 1 ELSE 0,
              !.explosions = LegacyProcessExplosions(@)]

\* LevelResourceManager.update_effects.  lrm_particles holds one duration
\* for each burst: the particles of a burst are created together and age
\* together.
LrmUpdateEffects(F) ==
    IF ~F.lrm_initialized THEN F
    ELSE [F EXCEPT !.lrm_explosions = AgeAndDrop(@),
                   !.lrm_lasers = AgeAndDrop(@),
                   !.lrm_particles = AgeAndDrop(@)]

\* Mutant of LrmCleanup: the lists are left as they are.
LrmCleanup_Keep(F) == [F EXCEPT !.lrm_initialized = FALSE]

\* LevelResourceManager.cleanup
LrmCleanup(F) ==
    IF ~F.lrm_initialized THEN F
    ELSE [F EXCEPT !.lrm_explosions = <<>>, !.lrm_lasers = <<>>,
                   !.lrm_particles = <<>>, !.lrm_initialized = FALSE]

\* NumbersLevel._cleanup_level
CleanupLevel(L) ==
    [L EXCEPT !.numbers = <<>>, !.numbers_to_spawn = <<>>,
              !.numbers_to_target = <<>>]

\* The groups are exhausted: the progression step shows the completion
\* screen.
GroupsExhausted(L) ==
    GroupFinished(L) /\ L.current_group_index + 1 >= Len(L.groups)

\* The progression step leaves the loop: the groups are exhausted or the
\* next group is empty.
LevelComplete(m, L) ==
    /\ GroupFinished(L)
    /\ \/ L.current_group_index + 1 >= Len(L.groups)
       \/ L.groups[L.current_group_index + 2] = <<>>

\* One more completion screen shown by a progression step taken from L.
NoteCompletion(S, L) ==
    IF GroupsExhausted(L) THEN [S EXCEPT !.completion_screens = @ + 1] ELSE S

\* One more checkpoint announced if the step set checkpoint_waiting.
NoteCheckpoint(S, before, after) ==
    IF ~before.checkpoint_waiting /\ after.checkpoint_waiting
    THEN [S EXCEPT !.checkpoints = @ + 1] ELSE S

\* An input frame ends although a click could have started the game or
\* destroyed the target.
ChanceMissed(L) ==
    /\ L.frame_count % InputPeriod = 0
    /\ \/ ~L.game_started
       \/ \E i \in Drawn(L) : L.numbers[i].value = L.target_number

\* The player's patience: the frame is not reached with a further missed
\* chance once MaxMissed of them have been counted.
NoteMissed(S, L) ==
    IF ChanceMissed(L) THEN [S EXCEPT !.missed = @ + 1] ELSE S

Patient(S, L) == ChanceMissed(L) => S.missed < MaxMissed

\* game_loop(mode) is entered from the menu: the effect globals and the
\* shared managers are reset and the level state is initialised.
\* Mutant of GameLoop: the loop is entered whatever the groups are.
GameLoop_NoGuard(m, sequence) ==
    /\ mode' = m
    /\ glass' = GlassReset(glass)
    /\ level' = ResetLevelStateWith(GroupsOf(sequence))
    /\ effects' = ResetEffects(m)
    /\ seen' = [NoObservation EXCEPT !.last_input = "start_run",
                                     !.reset_at_start = TRUE]
    /\ pc' = "run"

\* With no group to play, game_loop returns False after the resets.
GameLoop(m, sequence) ==
    /\ mode' = m
    /\ glass' = GlassReset(glass)
    /\ IF GroupsOf(sequence) = <<>>
       THEN /\ level' = NoLevel
            /\ effects' = [ResetEffects(m) EXCEPT !.lrm_initialized = FALSE]
            /\ seen' = [NoObservation EXCEPT !.last_input = "start_run",
                                             !.reset_at_start = TRUE,
                                             !.returned = "False"]
            /\ pc' = "ended"
       ELSE /\ level' = ResetLevelStateWith(GroupsOf(sequence))
            /\ effects' = ResetEffects(m)
            /\ seen' = [NoObservation EXCEPT !.last_input = "start_run",
                                             !.reset_at_start = TRUE]
            /\ pc' = "run"

GameLoopStart ==
    /\ program = "legacy"
    /\ pc = "menu"
    /\ \E m \in {"numbers", "clcase"} : GameLoop(m, SEQUENCES(m))

\* Durations passed to create_explosion, and the calls made on it.
MaxLegacyDuration == 3
MaxLegacyCreates == 7

\* create_explosion called with a duration, as the colours level and the
\* abilities do.
CreateExplosionCall ==
    /\ program = "legacy"
    /\ effects.explosions_created < MaxLegacyCreates
    /\ \E duration \in 1..MaxLegacyDuration :
        effects' = LegacyCreateExplosionFor(effects, duration)
    /\ UNCHANGED <<pc, mode, level, glass, seen>>

\* The explosion loop of one frame.
ProcessExplosionsCall ==
    /\ program = "legacy"
    /\ effects.explosions # <<>>
    /\ effects' = [effects EXCEPT !.explosions = LegacyProcessExplosions(@)]
    /\ UNCHANGED <<pc, mode, level, glass, seen>>

\* SEQUENCES[mode] as a settings file may configure it: empty, or shorter
\* than one group.
ConfiguredSequences == {<<>>, <<"1">>, <<"1", "2">>}

\* game_loop(mode) under a configured sequence; the NumbersLevel it builds
\* slices the same sequence.
ConfiguredGameLoopStart ==
    /\ program = "legacy"
    /\ pc = "menu"
    /\ \E m \in {"numbers", "clcase"} :
        \E sequence \in ConfiguredSequences : GameLoop(m, sequence)

\* The groups attribute of a NumbersLevel as a caller may set it before run().
ConfiguredGroups ==
    {<<>>, << <<>> >>, << <<"1">>, <<>> >>, << <<"1">>, <<"2">> >>,
     << <<"1">>, <<>>, <<"2">> >>}

\* NumbersLevel.run() called on a level object directly: the level resources
\* are initialized and reset_level_state reads self.groups; the caller
\* hands over freshly constructed managers.
NumbersRunStart ==
    /\ program = "legacy"
    /\ pc = "menu"
    /\ mode' = "numbers"
    /\ \E groups \in ConfiguredGroups : level' = ResetLevelStateWith(groups)
    /\ effects' = ResetEffects("numbers")
    /\ seen' = [NoObservation EXCEPT !.last_input = "start_run",
                                     !.reset_at_start = TRUE]
    /\ pc' = "run"
    /\ glass' = GlassReset(glass)

\* SuperStudentGame.run_level(level_mode): the shared managers are handed to
\* the level as they are; the LevelResourceManager constructor is called with
\* keyword arguments it does not have, and the TypeError is handled by
\* returning False.
RunLevelStart ==
    /\ program = "main"
    /\ pc = "menu"
    /\ game.running
    /\ game.handled < MaxErrorCalls
    /\ game' = HandleError(game)
    /\ seen' = [NoObservation EXCEPT !.last_input = "start_run",
                                     !.reset_at_start = FALSE, !.raised = TRUE]
    /\ UNCHANGED <<pc, mode, level, effects, glass>>

\* handle_error called on the game object, as test_error_handling does.
HandleErrorCall ==
    /\ program = "main"
    /\ game.handled < MaxErrorCalls
    /\ game' = HandleError(game)
    /\ UNCHANGED <<pc, mode, level, effects, glass, seen>>

\* What lies under a click point: the target object, only other objects,
\* or nothing.
PointKind(L, hit) ==
    IF hit = {} THEN "miss"
    ELSE IF \E i \in hit : L.numbers[i].value = L.target_number THEN "target"
    ELSE "other"

\* A click (MOUSEBUTTONUP of a short press) or a touch (FINGERDOWN outside
\* the cooldown): the first one starts the game, the later ones are handled
\* by the click loop.
Click ==
    /\ pc = "run"
    /\ mode \in {"numbers", "clcase"}
    /\ level.running
    /\ level.frame_count % InputPeriod = 0
    /\ IF ~level.game_started
       THEN /\ level' = [level EXCEPT !.game_started = TRUE]
            /\ seen' = [seen EXCEPT !.last_input = "start"]
            /\ UNCHANGED <<effects, glass>>
       ELSE \E hit \in ClickPoints(level) :
               /\ hit = {} => seen.misclick_calls < MaxMisclicks
               /\ LET r == HandleClick(mode, level, effects, glass, seen, hit)
                  IN  /\ level' = r.level
                      /\ effects' = r.effects
                      /\ glass' = r.glass
                      /\ seen' = [r.seen EXCEPT !.last_input = PointKind(level, hit)]
    /\ UNCHANGED <<pc, mode>>

\* QUIT or ESC in NumbersLevel: run() returns False through its cleanup.
Quit ==
    /\ pc = "run"
    /\ mode = "numbers"
    /\ level.running
    /\ level.frame_count % InputPeriod = 0
    /\ level' = CleanupLevel([level EXCEPT !.running = FALSE])
    /\ effects' = LrmCleanup(effects)
    /\ seen' = [seen EXCEPT !.last_input = "quit", !.returned = "False"]
    /\ pc' = "ended"
    /\ UNCHANGED <<mode, glass>>

\* The rest of one iteration of the loop of NumbersLevel.run, after the
\* events: spawn, checkpoint logic, progression, effect update, draw.
NumbersFrame ==
    /\ pc = "run"
    /\ mode = "numbers"
    /\ level.running
    /\ level.frame_count < MaxFrames
    /\ Patient(seen, level)
    /\ \E cont \in BOOLEAN :
        LET L1 == SpawnNumbers(level)
            L2 == CheckpointLogic(mode, L1, effects, cont)
            L3 == LevelProgression(mode, L2)
            S0 == [NoteCheckpoint(NoteMissed(seen, level), L1, L2)
                       EXCEPT !.last_input = "frame"]
            \* an exception of _update_numbers is printed before the
            \* progression step, one of _draw_frame after it
            S1 == IF faults = "_update_numbers"
                  THEN [S0 EXCEPT !.frame_errors = @ + 1] ELSE S0
        IN  IF LevelComplete(mode, L2)
            THEN /\ level' = CleanupLevel(L3)
                 /\ effects' = LrmCleanup(effects)
                 /\ seen' = [NoteCompletion(S1, L2) EXCEPT !.returned = "False"]
                 /\ pc' = "ended"
            ELSE LET F2 == UpdateSharedEffects(LrmUpdateEffects(effects))
                     drawn == faults # "_draw_frame"
                     L4 == [(IF drawn THEN DrawNumbers(L3) ELSE L3)
                                EXCEPT !.frame_count = @ + 1]
                     S2 == IF drawn
                           THEN [S1 EXCEPT !.drawn_target = DrawnAsTarget(L3),
                                           !.shown_target = L3.target_number,
                                           !.targets_at_draw = L3.numbers_to_target,
                                           !.effects_drawn =
                                               EffectsDrawn(LrmUpdateEffects(effects),
                                                            effects)]
                           ELSE [S1 EXCEPT !.frame_errors = @ + 1]
                 IN  /\ seen' = [S2 EXCEPT !.returned =
                                      IF L4.running THEN @ ELSE "False"]
                     /\ IF L4.running
                        THEN /\ level' = L4
                             /\ effects' = F2
                             /\ pc' = "run"
                        ELSE /\ level' = CleanupLevel(L4)
                             /\ effects' = LrmCleanup(F2)
                             /\ pc' = "ended"
    /\ UNCHANGED <<mode, glass>>

\* The rest of one iteration of the inline loop of game_loop, after the
\* events: spawn, draw, effect processing, checkpoint logic, progression.
LegacyFrame ==
    /\ pc = "run"
    /\ mode = "clcase"
    /\ level.running
    /\ level.frame_count < MaxFrames
    /\ Patient(seen, level)
    /\ \E cont \in BOOLEAN :
        LET L1 == SpawnNumbers(level)
            L2 == [DrawNumbers(L1) EXCEPT !.frame_count = @ + 1]
            F1 == UpdateSharedEffects(effects)
            L3 == CheckpointLogic(mode, L2, F1, cont)
            L4 == IF L3.running THEN LevelProgression(mode, L3) ELSE L3
        IN  /\ level' = L4
            /\ effects' = F1
            /\ seen' = [NoteCheckpoint(NoteMissed(
                             IF L3.running THEN NoteCompletion(seen, L3) ELSE seen,
                             level), L2, L3)
                            EXCEPT !.last_input = "frame",
                                   !.drawn_target = DrawnAsTarget(L1),
                                   !.shown_target = L1.target_number,
                                   !.targets_at_draw = L1.numbers_to_target,
                                   !.effects_drawn =
                                       [EffectsDrawn(effects, effects)
                                            EXCEPT !.lrm = 0],
                                   !.returned = IF L4.running THEN @ ELSE "True"]
            /\ pc' = IF L4.running THEN "run" ELSE "ended"
    /\ UNCHANGED <<mode, glass>>

(***************************************************************************)
(* ColorsLevel (src/levels/colors_level.py).  A colour is its index in     *)
(* COLORS_LIST.  The motion of the dots, their collisions and the timed    *)
(* drawing effects are not part of this state: a click is described by the *)
(* first alive dot that contains the point, if any.                        *)
(***************************************************************************)
\* len(COLORS_LIST)
NUM_COLORS == 5
\* Dots created by the dispersion, and how many of them have the mother colour.
TOTAL_DOTS == 100
MOTHER_DOTS == 25
\* Destroyed dots after which the target colour is switched.
DOTS_PER_SWITCH == 5
\* checkpoint_trigger
CHECKPOINT_TRIGGER == 10
\* new_dots_count of _generate_new_dots
NEW_DOTS_COUNT == 10
\* Largest number of dots destroyed in one run of the colours level.
MaxDotsDestroyed == 26

ColorIndices == 0..(NUM_COLORS - 1)

\* No ColorsLevel object exists.  checkpoint_calls counts the calls of
\* _handle_checkpoint.
NoColors ==
    [used_colors |-> <<>>, color_idx |-> 0, current_color_dots_destroyed |-> 0,
     total_dots_destroyed |-> 0, target_dots_left |-> 0, dots |-> <<>>,
     overall_destroyed |-> 0, dots_before_checkpoint |-> 0, score |-> 0,
     running |-> FALSE, checkpoint_calls |-> 0]

\* The colour of the i-th dispersed dot (i from 1): the first MOTHER_DOTS have
\* the mother colour c0, the others are dealt to the distractor colours in
\* list order, the first colours taking the remainder.
DispersedColor(c0, i) ==
    LET others == NUM_COLORS - 1
        per    == (TOTAL_DOTS - MOTHER_DOTS) \div others
        extra  == (TOTAL_DOTS - MOTHER_DOTS) % others
        k      == i - MOTHER_DOTS - 1
        slot   == IF k < extra * (per + 1) THEN k \div (per + 1)
                  ELSE extra + (k - extra * (per + 1)) \div per
    IN  IF i <= MOTHER_DOTS THEN c0
        ELSE IF slot < c0 THEN slot ELSE slot + 1

\* The level after reset_level_state, the choice of the starting colour c0
\* and the dispersion.
DispersedLevel(c0) ==
    [used_colors |-> <<c0>>, color_idx |-> c0, current_color_dots_destroyed |-> 0,
     total_dots_destroyed |-> 0, target_dots_left |-> 10,
     dots |-> [i \in 1..TOTAL_DOTS |->
                  [color |-> DispersedColor(c0, i), alive |-> TRUE,
                   target |-> DispersedColor(c0, i) = c0]],
     overall_destroyed |-> 0, dots_before_checkpoint |-> 0, score |-> 0,
     running |-> TRUE, checkpoint_calls |-> 0]

\* Number of alive target dots.
AliveTargets(dots) ==
    Cardinality({i \in 1..Len(dots) : dots[i].target /\ dots[i].alive})

\* Mutant of AvailableColors: the colours already used are offered again.
AvailableColors_Used(C) ==
    {i \in ColorIndices : \E k \in 1..Len(C.used_colors) : C.used_colors[k] = i}

\* The colours the next mother colour is chosen from.
AvailableColors(C) ==
    {i \in ColorIndices : \A k \in 1..Len(C.used_colors) : C.used_colors[k] # i}

\* Mutant of RestartTracking: the tracking restarts from no colour at all.
RestartTracking_Empty(C) ==
    IF AvailableColors(C) = {} THEN [C EXCEPT !.used_colors = <<>>]
    ELSE C

\* The start of _switch_target_color and of _generate_new_dots: once every
\* colour has been used the tracking restarts from the current colour.
RestartTracking(C) ==
    IF AvailableColors(C) = {} THEN [C EXCEPT !.used_colors = <<C.color_idx>>]
    ELSE C

\* _switch_target_color, n being the colour random.choice returns.
SwitchTargetColor(C, n) ==
    LET C1 == RestartTracking(C)
        ds == [i \in 1..Len(C1.dots) |->
                  IF C1.dots[i].alive
                  THEN [C1.dots[i] EXCEPT !.target = (C1.dots[i].color = n)]
                  ELSE C1.dots[i]]
    IN  [C1 EXCEPT !.color_idx = n,
                   !.used_colors = Append(@, n),
                   !.current_color_dots_destroyed = 0,
                   !.dots = ds,
                   !.target_dots_left = AliveTargets(ds)]

\* _handle_checkpoint, cont being the answer of the checkpoint screen.
HandleCheckpoint(C, cont) ==
    [C EXCEPT !.dots_before_checkpoint = C.target_dots_left,
              !.checkpoint_calls = @ + 1,
              !.running = IF cont THEN @ ELSE FALSE]

\* _destroy_target_dot for the dot at position i.
DestroyTargetDot(C, i, n, cont) ==
    LET C1 == [C EXCEPT !.dots[i].alive = FALSE,
                        !.target_dots_left = @ - 1,
                        !.score = @ + 10,
                        !.overall_destroyed = @ + 1,
                        !.current_color_dots_destroyed = @ + 1,
                        !.total_dots_destroyed = @ + 1]
        C2 == IF C1.current_color_dots_destroyed >= DOTS_PER_SWITCH
              THEN SwitchTargetColor(C1, n) ELSE C1
    IN  IF C2.total_dots_destroyed % CHECKPOINT_TRIGGER = 0
        THEN HandleCheckpoint(C2, cont) ELSE C2

\* The colours random.choice can return for the switch that destroying one
\* more dot triggers (any colour stands for "no switch").
SwitchChoices(C) ==
    IF C.current_color_dots_destroyed + 1 >= DOTS_PER_SWITCH
    THEN AvailableColors(RestartTracking(C))
    ELSE {C.color_idx}

\* The dots a click is aimed at: the first alive dot of each colour.
ClickableDots(C) ==
    {i \in 1..Len(C.dots) :
        /\ C.dots[i].alive
        /\ \A j \in 1..(i - 1) :
               C.dots[j].alive => C.dots[j].color # C.dots[i].color}

\* game_loop("colors"): the resets of game_loop, then ColorsLevel.run up to
\* the end of the dispersion.
ColorsStart ==
    /\ program = "legacy"
    /\ pc = "menu"
    /\ \E c0 \in ColorIndices : colors' = DispersedLevel(c0)
    /\ mode' = "colors"
    /\ effects' = ResetEffects("colors")
    /\ glass' = GlassReset(glass)
    /\ seen' = [NoObservation EXCEPT !.last_input = "start_run",
                                     !.reset_at_start = TRUE]
    /\ pc' = "run"

\* A click or touch on an alive dot: _handle_click finds the dot and reports
\* a hit; a target dot is destroyed.  A run is followed up to bound
\* destroyed dots.
ColorsClickDotUpTo(bound) ==
    /\ pc = "run"
    /\ mode = "colors"
    /\ colors.running
    /\ \E i \in ClickableDots(colors) :
        IF colors.dots[i].target
        THEN /\ colors.total_dots_destroyed < bound
             /\ \E n \in SwitchChoices(colors), cont \in BOOLEAN :
                    colors' = DestroyTargetDot(colors, i, n, cont)
             /\ effects' = [effects EXCEPT !.explosions_created = @ + 1,
                                           !.shake_duration = Max(@, 10)]
             /\ seen' = [seen EXCEPT !.last_input = "target_dot"]
        ELSE /\ seen' = [seen EXCEPT !.last_input = "other_dot"]
             /\ UNCHANGED <<colors, effects>>
    /\ UNCHANGED <<pc, mode, glass>>

ColorsClickDot == ColorsClickDotUpTo(MaxDotsDestroyed)

\* A click or touch in no alive dot: _handle_click reports no hit and the
\* event loop forwards the point to handle_misclick.
ColorsMisclick ==
    /\ pc = "run"
    /\ mode = "colors"
    /\ colors.running
    /\ seen.misclick_calls < MaxMisclicks
    /\ glass' = HandleMisclick(glass)
    /\ seen' = [seen EXCEPT !.last_input = "miss", !.misclick_calls = @ + 1]
    /\ UNCHANGED <<pc, mode, colors, effects>>

\* Mutant of GenerateNewDots: the dead dots stay in the list.
GenerateNewDots_KeepDead(C, n, dc) ==
    LET C1    == RestartTracking(C)
        kept  == C1.dots
        have  == Cardinality({i \in 1..Len(kept) : kept[i].color = n})
        need  == IF NEW_DOTS_COUNT > have THEN NEW_DOTS_COUNT - have ELSE 0
        fresh == [i \in 1..(TOTAL_DOTS - Len(kept)) |->
                     [color |-> IF i <= need THEN n ELSE dc, alive |-> TRUE,
                      target |-> i <= need]]
        all   == kept \o fresh
        ds    == [i \in 1..Len(all) |-> [all[i] EXCEPT !.target = (all[i].color = n)]]
    IN  [C1 EXCEPT !.color_idx = n,
                   !.used_colors = Append(@, n),
                   !.dots = ds,
                   !.target_dots_left = AliveTargets(ds)]

\* _generate_new_dots: n is the new mother colour, dc the colour given to
\* the new distractor dots.
GenerateNewDots(C, n, dc) ==
    LET C1    == RestartTracking(C)
        kept  == SelectSeq(C1.dots, LAMBDA d : d.alive)
        have  == Cardinality({i \in 1..Len(kept) : kept[i].color = n})
        need  == IF NEW_DOTS_COUNT > have THEN NEW_DOTS_COUNT - have ELSE 0
        fresh == [i \in 1..(TOTAL_DOTS - Len(kept)) |->
                     [color |-> IF i <= need THEN n ELSE dc, alive |-> TRUE,
                      target |-> i <= need]]
        all   == kept \o fresh
        ds    == [i \in 1..Len(all) |-> [all[i] EXCEPT !.target = (all[i].color = n)]]
    IN  [C1 EXCEPT !.color_idx = n,
                   !.used_colors = Append(@, n),
                   !.dots = ds,
                   !.target_dots_left = AliveTargets(ds)]

\* The rest of one iteration of _main_game_loop, after the events: the
\* game-over check and the regeneration of the dots.
ColorsFrame ==
    /\ pc = "run"
    /\ mode = "colors"
    /\ seen' = [seen EXCEPT !.last_input = "frame",
                            !.game_over_calls =
                                IF colors.running /\ IsGameOverReady(glass)
                                THEN @ + 1 ELSE @]
    /\ IF ~colors.running \/ IsGameOverReady(glass)
       THEN /\ pc' = "ended"
            /\ colors' = [colors EXCEPT !.running = FALSE]
       ELSE /\ pc' = "run"
            /\ IF colors.target_dots_left <= 0
               THEN \E n \in AvailableColors(RestartTracking(colors)) :
                        \E dc \in ColorIndices \ {n} :
                            colors' = GenerateNewDots(colors, n, dc)
               ELSE colors' = colors
    /\ UNCHANGED <<mode, effects, glass>>

\* The destroyed dots up to which a long colours run is guided, and those up
\* to which it is followed.
PlayedDots == 60
MaxRoundDots == 74

\* The smallest colour of a non-empty set.
LowestOf(cs) == CHOOSE c \in cs : \A d \in cs : c <= d

\* The first PlayedDots clicks of a long colours run: each is on the first
\* alive target dot, every checkpoint screen is answered with Continue, and
\* random.choice returns the lowest of the colours it is offered.
ColorsGuidedClickUpTo(bound) ==
    /\ pc = "run"
    /\ mode = "colors"
    /\ colors.running
    /\ colors.total_dots_destroyed < bound
    /\ \E i \in ClickableDots(colors) :
        /\ colors.dots[i].target
        /\ colors' = DestroyTargetDot(colors, i,
                                      LowestOf(SwitchChoices(colors)), TRUE)
    /\ effects' = [effects EXCEPT !.explosions_created = @ + 1,
                                  !.shake_duration = Max(@, 10)]
    /\ seen' = [seen EXCEPT !.last_input = "target_dot"]
    /\ UNCHANGED <<pc, mode, glass>>

ColorsGuidedClick == ColorsGuidedClickUpTo(PlayedDots)

\* The clicks after them.
ColorsLateClick ==
    /\ colors.total_dots_destroyed >= PlayedDots
    /\ ColorsClickDotUpTo(MaxRoundDots)

\* A player who clicks beside every object: the first click starts the game,
\* each later one is a click on empty space.  The cracks are followed to one
\* past MAX_CRACKS.
MissClick ==
    /\ pc = "run"
    /\ mode \in {"numbers", "clcase"}
    /\ level.running
    /\ level.frame_count % InputPeriod = 0
    /\ glass.cracks <= MAX_CRACKS
    /\ IF ~level.game_started
       THEN /\ level' = [level EXCEPT !.game_started = TRUE]
            /\ seen' = [seen EXCEPT !.last_input = "start"]
            /\ UNCHANGED <<effects, glass>>
       ELSE LET r == HandleClick(mode, level, effects, glass, seen, {})
            IN  /\ level' = r.level
                /\ effects' = r.effects
                /\ glass' = r.glass
                /\ seen' = [r.seen EXCEPT !.last_input = "miss"]
    /\ UNCHANGED <<pc, mode>>

\* The same player in ColorsLevel.
ColorsMissClick ==
    /\ pc = "run"
    /\ mode = "colors"
    /\ colors.running
    /\ glass.cracks <= MAX_CRACKS
    /\ glass' = HandleMisclick(glass)
    /\ seen' = [seen EXCEPT !.last_input = "miss", !.misclick_calls = @ + 1]
    /\ UNCHANGED <<pc, mode, colors, effects>>

\* The level's run has returned: its object is dropped; the shared managers
\* and the effect globals stay as the run left them.
ReturnToMenu ==
    /\ pc = "ended"
    /\ pc' = "menu"
    /\ mode' = "none"
    /\ level' = NoLevel
    /\ colors' = NoColors
    /\ seen' = NoObservation
    /\ UNCHANGED <<effects, glass>>

\* The program after init_resources, in the menu.
GameInit ==
    /\ program \in {"legacy", "main"}
    /\ pc = "menu"
    /\ mode = "none"
    /\ level = NoLevel
    /\ effects = ResetEffects("none")
    /\ glass = [cracks |-> 0]
    /\ seen = NoObservation
    /\ colors = NoColors

(***************************************************************************)
(* The motion of the falling objects (NumbersLevel._update_numbers and     *)
(* _handle_number_collisions; the legacy game_loop has the same code).     *)
(* Both are functions of the objects they are given, and are applied here  *)
(* to objects drawn from bounded sets.  The arithmetic is exact.  In the   *)
(* update a length is an integer number of 1/PX pixels and a speed an      *)
(* integer number of 1/PX pixels per frame, the inputs being chosen so     *)
(* that every product with 0.8 is again an integer.  In the resolver a     *)
(* length is a number of pixels, a speed a number of 0.15 pixels per       *)
(* frame, and the results are numerators over a common denominator.        *)
(***************************************************************************)
VARIABLES
    motion,     \* one object before and after one pass of the update loop
    collision   \* one pair of objects before and after the resolver

physVars == <<motion, collision>>

\* Length units per pixel.
PX == 100
\* The screen of the model, in pixels.
ScreenWidth == 800
ScreenHeight == 600
\* "size" of a falling number, in pixels.
SIZE == 240

WIDTH == ScreenWidth * PX
HEIGHT == ScreenHeight * PX
\* size / 2
HalfSize == (SIZE * PX) \div 2

Abs(a) == IF a >= 0 THEN a ELSE -a

\* Mutant of Dampen: the speed is kept.
Dampen_Keep(d) == d

\* d * bounce_dampening, bounce_dampening being 0.8
Dampen(d) == (d * 4) \div 5

\* One pass of the loop body of _update_numbers for the object o; r is the
\* value random.uniform(0.1, 0.3) returns on a bottom bounce.
UpdateNumber(o, r) ==
    LET m  == [o EXCEPT !.x = o.x + o.dx, !.y = o.y + o.dy]
        cb == o.can_bounce \/ m.y > (ScreenHeight \div 5) * PX
        h  == IF ~cb THEN m
              ELSE IF m.x <= HalfSize
                   THEN [m EXCEPT !.x = HalfSize, !.dx = Dampen(Abs(m.dx))]
              ELSE IF m.x >= WIDTH - HalfSize
                   THEN [m EXCEPT !.x = WIDTH - HalfSize,
                                  !.dx = -Dampen(Abs(m.dx))]
              ELSE m
        v  == IF ~cb THEN h
              ELSE IF h.y <= HalfSize
                   THEN [h EXCEPT !.y = HalfSize, !.dy = Dampen(Abs(h.dy))]
              ELSE IF h.y >= HEIGHT - HalfSize
                   THEN [h EXCEPT !.y = HEIGHT - HalfSize,
                                  !.dy = -Dampen(Abs(h.dy)),
                                  !.dx = IF 2 * h.x < WIDTH
                                         THEN Dampen(h.dx) + r
                                         ELSE Dampen(h.dx) - r]
              ELSE h
    IN  [v EXCEPT !.can_bounce = cb]

\* Positions around the four edges and in the middle of the screen.
XChoices ==
    {HalfSize - 200, HalfSize + 100, WIDTH \div 2 - 100, WIDTH \div 2 + 100,
     WIDTH - HalfSize - 100, WIDTH - HalfSize + 200}

YChoices ==
    {HalfSize - 200, HalfSize + 100, HEIGHT \div 2,
     HEIGHT - HalfSize - 100, HEIGHT - HalfSize + 200}

\* The speeds objects are spawned with, their opposites, and rest.
DxChoices == {-150, -75, 0, 75, 150}

DyChoices == {-270, -180, 0, 180, 270}

\* random.uniform(0.1, 0.3), sampled.
NudgeChoices == {10, 20, 30}

NoMotion == [phase |-> "idle"]

\* The radius passed to apply_explosion_effect, in pixels.
EXPLOSION_RADIUS == 150

\* Where a pushed object lies from the centre of the explosion, in pixels:
\* at the centre, inside the radius, on it and beyond it.
PushOffsets == {<<0, 0>>, <<0, -60>>, <<-90, 0>>, <<30, 40>>, <<0, 150>>, <<200, 0>>}

\* math.sqrt(dist_sq) for the offsets above.
PushDistance(off) ==
    CHOOSE r \in 0..(Abs(off[1]) + Abs(off[2])) :
        r * r = off[1] * off[1] + off[2] * off[2]

\* apply_explosion_effect for one object lying at offset off from the
\* explosion: force = (1 - dist / radius) * 15 pixels per frame, which is
\* (radius - dist) * 10 hundredths for the radius of 150.
ApplyExplosionEffect(o, off) ==
    LET dist == PushDistance(off)
    IN  IF dist < EXPLOSION_RADIUS /\ dist > 0
        THEN [o EXCEPT !.dx = @ + (off[1] * (EXPLOSION_RADIUS - dist) * 10) \div dist,
                       !.dy = @ + (off[2] * (EXPLOSION_RADIUS - dist) * 10) \div dist,
                       !.can_bounce = TRUE]
        ELSE o

\* Frames of a fall that are followed, and pushes it may receive.
MaxFallFrames == 110
MaxPushes == 1

\* An object as _spawn_numbers makes it: above the screen, not bouncing.
SpawnedObjects ==
    {[x |-> x, y |-> -50 * PX, dx |-> dx, dy |-> dy, can_bounce |-> FALSE] :
        x \in {50 * PX, (ScreenWidth - 50) * PX}, dx \in {-150, -75, 75, 150},
        dy \in {180, 270}}

FallInit ==
    \E o \in SpawnedObjects :
        motion = [phase |-> "falling", before |-> o, after |-> o,
                  frames |-> 0, pushes |-> 0, last |-> "spawn"]

\* One frame's update of the falling object.
FallFrame ==
    /\ motion.phase = "falling"
    /\ motion.frames < MaxFallFrames
    /\ \E r \in {20} :
           motion' = [motion EXCEPT !.before = motion.after,
                                    !.after = UpdateNumber(motion.after, r),
                                    !.frames = @ + 1,
                                    !.last = "update"]

\* A target is destroyed on an input frame and the explosion push is
\* applied to the falling object.
FallPush ==
    /\ motion.phase = "falling"
    /\ motion.frames % InputPeriod = 0
    /\ motion.pushes < MaxPushes
    /\ \E off \in PushOffsets :
           motion' = [motion EXCEPT !.before = motion.after,
                                    !.after = ApplyExplosionEffect(motion.after, off),
                                    !.pushes = @ + 1,
                                    !.last = "push"]

MotionInit ==
    \E x \in XChoices, y \in YChoices, dx \in DxChoices, dy \in DyChoices,
       cb \in BOOLEAN :
        LET o == [x |-> x, y |-> y, dx |-> dx, dy |-> dy, can_bounce |-> cb]
        IN  motion = [phase |-> "before", before |-> o, after |-> o]

\* One frame's update of the object.
UpdateNumbers ==
    /\ motion.phase = "before"
    /\ \E r \in NudgeChoices :
           motion' = [motion EXCEPT !.phase = "after",
                                    !.after = UpdateNumber(motion.before, r)]

\* Mutant of ImpulseOnSecond: the second object takes the impulse scaled by
\* its own mass.
ImpulseOnSecond_OwnMass(dot, m1, m2, d) == 2 * dot * m2 * d * 17

\* The change of one velocity component of the second object of a pair, as
\* a numerator over 20 * total_mass * distance_sq:
\* impulse * mass1 * n * bounce_factor, with impulse = 2 * dot_product /
\* total_mass, n = d / distance, dot_product = dot / distance and
\* bounce_factor = 0.85 = 17/20.
ImpulseOnSecond(dot, m1, m2, d) == 2 * dot * m1 * d * 17

\* The same for the first object, which is given the opposite direction and
\* the mass of the second.
ImpulseOnFirst(dot, m1, m2, d) == -(2 * dot * m2 * d * 17)

\* math.sqrt for the squares it is applied to here.
Sqrt(n) == CHOOSE r \in 0..n : r * r = n

\* The body of the pair loop of _handle_number_collisions for the objects a
\* and b.  The result gives the new positions as numerators over pden and
\* the new velocities as numerators over vden.
ResolvePair(a, b) ==
    LET dx == b.x - a.x
        dy == b.y - a.y
        distance_sq == dx * dx + dy * dy
        \* size / 1.8 for both objects, in ninths of a pixel
        min_distance9 == (a.size * 5) + (b.size * 5)
    IN  IF 81 * distance_sq < min_distance9 * min_distance9 /\ distance_sq > 0
        THEN LET distance   == Sqrt(distance_sq)
                 overlap9   == min_distance9 - 9 * distance
                 total_mass == a.mass + b.mass
                 pden       == 9 * distance * total_mass
                 vden       == 20 * total_mass * distance_sq
                 dot        == (a.dx - b.dx) * dx + (a.dy - b.dy) * dy
             IN  [hit |-> TRUE, pden |-> pden, vden |-> vden,
                  ax  |-> a.x * pden - dx * overlap9 * b.mass,
                  ay  |-> a.y * pden - dy * overlap9 * b.mass,
                  bx  |-> b.x * pden + dx * overlap9 * a.mass,
                  by  |-> b.y * pden + dy * overlap9 * a.mass,
                  adx |-> a.dx * vden + ImpulseOnFirst(dot, a.mass, b.mass, dx),
                  ady |-> a.dy * vden + ImpulseOnFirst(dot, a.mass, b.mass, dy),
                  bdx |-> b.dx * vden + ImpulseOnSecond(dot, a.mass, b.mass, dx),
                  bdy |-> b.dy * vden + ImpulseOnSecond(dot, a.mass, b.mass, dy)]
        ELSE [hit |-> FALSE, pden |-> 1, vden |-> 1,
              ax |-> a.x, ay |-> a.y, bx |-> b.x, by |-> b.y,
              adx |-> a.dx, ady |-> a.dy, bdx |-> b.dx, bdy |-> b.dy]

\* Offsets of the second object from the first whose length is a whole
\* number of units: overlapping, coincident, touching and apart.
OffsetChoices ==
    {<<0, 0>>, <<0, 6>>, <<3, 4>>, <<-12, 5>>, <<8, -15>>, <<180, 240>>}

\* random.uniform(40, 60), sampled.
MassChoices == {40, 50, 60}

NoCollision == [phase |-> "idle"]

CollisionInit ==
    \E off \in OffsetChoices, m1 \in MassChoices, m2 \in MassChoices,
       adx \in {-10, 5}, ady \in {12, 18},
       bdx \in {-5, 10}, bdy \in {-12, 12} :
        LET a == [x |-> ScreenWidth \div 2, y |-> ScreenHeight \div 2, dx |-> adx,
                  dy |-> ady, mass |-> m1, size |-> SIZE]
            b == [x |-> a.x + off[1], y |-> a.y + off[2], dx |-> bdx,
                  dy |-> bdy, mass |-> m2, size |-> SIZE]
        IN  collision = [phase |-> "before", a |-> a, b |-> b,
                         result |-> ResolvePair(a, a)]

\* The resolver is applied to the pair.
HandleNumberCollisions ==
    /\ collision.phase = "before"
    /\ collision' = [collision EXCEPT
                        !.phase = "after",
                        !.result = ResolvePair(collision.a, collision.b)]

\* The radius of a colours dot, in pixels.
DOT_RADIUS == 48

\* The body of the pair loop of _handle_dot_collisions with _resolve_collision
\* for the alive dots a and b.  The normal is (dx, dy) / distance, or (1, 0)
\* for coincident dots; the dots are separated and swap their velocities
\* only if they approach each other along the normal.  The result gives the
\* new positions as numerators over pden and the velocities over vden.
ResolveDots(a, b) ==
    LET dx == a.x - b.x
        dy == a.y - b.y
        distance == Sqrt(dx * dx + dy * dy)
        nden == IF distance > 0 THEN distance ELSE 1
        nx   == IF distance > 0 THEN dx ELSE 1
        ny   == IF distance > 0 THEN dy ELSE 0
        velocity_along_normal == (a.dx - b.dx) * nx + (a.dy - b.dy) * ny
        overlap == (a.radius + b.radius) - distance
    IN  IF distance < a.radius + b.radius /\ velocity_along_normal < 0
        THEN [hit |-> TRUE, pden |-> 2 * nden, vden |-> 5,
              ax  |-> a.x * 2 * nden + overlap * nx,
              ay  |-> a.y * 2 * nden + overlap * ny,
              bx  |-> b.x * 2 * nden - overlap * nx,
              by  |-> b.y * 2 * nden - overlap * ny,
              adx |-> 4 * b.dx, ady |-> 4 * b.dy,
              bdx |-> 4 * a.dx, bdy |-> 4 * a.dy]
        ELSE [hit |-> FALSE, pden |-> 1, vden |-> 1,
              ax |-> a.x, ay |-> a.y, bx |-> b.x, by |-> b.y,
              adx |-> a.dx, ady |-> a.dy, bdx |-> b.dx, bdy |-> b.dy]

\* Offsets of the first dot from the second: coincident, overlapping,
\* touching and apart.
DotOffsetChoices == {<<0, 0>>, <<0, 60>>, <<30, 40>>, <<-96, 0>>, <<120, 0>>}

DotCollisionInit ==
    \E off \in DotOffsetChoices,
       adx \in {-10, 5}, ady \in {0, 5}, bdx \in {-5, 10}, bdy \in {-5, 0} :
        LET b == [x |-> ScreenWidth \div 2, y |-> ScreenHeight \div 2, dx |-> bdx,
                  dy |-> bdy, radius |-> DOT_RADIUS]
            a == [x |-> b.x + off[1], y |-> b.y + off[2], dx |-> adx,
                  dy |-> ady, radius |-> DOT_RADIUS]
        IN  collision = [phase |-> "dots", a |-> a, b |-> b,
                         result |-> ResolveDots(b, [b EXCEPT !.x = @ + 200])]

\* The dot resolver is applied to the pair.
HandleDotCollisions ==
    /\ collision.phase = "dots"
    /\ collision' = [collision EXCEPT
                        !.phase = "dots_after",
                        !.result = ResolveDots(collision.a, collision.b)]

(***************************************************************************)
(* The arming of the dot collisions of ColorsLevel: the collision fields   *)
(* of the level are followed beside its colours state.                     *)
(***************************************************************************)
\* COLORS_COLLISION_DELAY of settings.py, which reset_level_state takes as
\* collision_delay_frames.
COLORS_COLLISION_DELAY == 250

\* The frames for which the arming of the dot collisions is followed, and
\* the destroyed dots up to which the run is followed then.
MaxArmFrames == 530
MaxArmDots == 74

\* The frames between two clicks of the player whose run is followed.
ClickTempos == {3, 4}

\* Mutant of ArmCollisions: the collisions are enabled one frame later.
ArmCollisions_Late(A) ==
    IF A.collision_enabled THEN A
    ELSE IF A.collision_delay_counter + 1 > COLORS_COLLISION_DELAY
         THEN [A EXCEPT !.collision_enabled = TRUE,
                        !.collision_delay_counter = 0]
         ELSE [A EXCEPT !.collision_delay_counter = @ + 1]

\* The update of the collision delay counter in a frame of _main_game_loop.
ArmCollisions(A) ==
    IF A.collision_enabled THEN A
    ELSE IF A.collision_delay_counter + 1 >= COLORS_COLLISION_DELAY
         THEN [A EXCEPT !.collision_enabled = TRUE,
                        !.collision_delay_counter = 0]
         ELSE [A EXCEPT !.collision_delay_counter = @ + 1]

\* The start of a colours run with the collision fields of
\* reset_level_state: collisions disabled, the counter at 0.  since counts
\* the frame updates since the loop started or generated a round, resolved
\* tells whether the last frame called _handle_dot_collisions.
ArmedStart ==
    /\ ColorsStart
    /\ \E t \in ClickTempos :
           collision' = [phase |-> "arming", collision_enabled |-> FALSE,
                         collision_delay_counter |-> 0, resolved |-> FALSE,
                         since |-> 0, frames |-> 0, tempo |-> t,
                         clicked |-> FALSE]

\* The player whose run is followed clicks in this frame: the tempo gives
\* the frame, and the run has not come to MaxArmDots destroyed dots.
ClickDue ==
    /\ collision.frames % collision.tempo = 0
    /\ ~collision.clicked
    /\ colors.running
    /\ colors.total_dots_destroyed < MaxArmDots

\* A click of the run, on the first alive target dot.
ArmedClick ==
    /\ collision.phase = "arming"
    /\ ClickDue
    /\ ColorsGuidedClickUpTo(MaxArmDots)
    /\ collision' = [collision EXCEPT !.clicked = TRUE]

\* The rest of one iteration of _main_game_loop with the collision delay:
\* the counter is updated, the collisions are handled if they are enabled,
\* and a new round disables them again.
ArmedFrame ==
    /\ collision.phase = "arming"
    /\ collision.frames < MaxArmFrames
    /\ ~ClickDue
    /\ ColorsFrame
    /\ IF pc' = "ended" THEN collision' = collision
       ELSE LET A1 == ArmCollisions(collision)
                A2 == [A1 EXCEPT !.resolved = A1.collision_enabled,
                                 !.since = @ + 1,
                                 !.frames = @ + 1,
                                 !.clicked = FALSE]
            IN  collision' =
                    IF colors.target_dots_left <= 0
                    THEN [A2 EXCEPT !.collision_enabled = FALSE,
                                    !.collision_delay_counter = 0,
                                    !.since = 0]
                    ELSE A2

(***************************************************************************)
(* The collision pass over the frames of a loop.  The pass is made on the  *)
(* frames whose counter is a multiple of collision_check_frequency, a      *)
(* value of PERFORMANCE_SETTINGS in Display_settings.py, which the loops   *)
(* read per display mode.  Lengths are thirds of a pixel here, so that the *)
(* pushes of the objects below are whole numbers of units.                 *)
(***************************************************************************)

\* A length of px pixels in thirds of a pixel.
InThirds(px) == 3 * px

\* The values collision_check_frequency is given.
CollisionFrequencies == {1, 2, 3}

\* The frames of one run of the frame-by-frame collision model.
MaxThrottleFrames == 6

\* Mutant of CheckFrame: the pass is made on the multiples of the next
\* number.
CheckFrame_Rarer(frame_count, collision_frequency) ==
    frame_count % (collision_frequency + 1) = 0

\* frame_count % collision_frequency == 0
CheckFrame(frame_count, collision_frequency) ==
    frame_count % collision_frequency = 0

\* distance_sq < min_distance_sq for the objects a and b: one reaches into
\* the other.
Interpenetrate(a, b) ==
    LET dx == b.x - a.x
        dy == b.y - a.y
        min_distance9 == (a.size * 5) + (b.size * 5)
    IN  81 * (dx * dx + dy * dy) < min_distance9 * min_distance9

\* The pair a, b after the body of the pair loop, the positions and
\* velocities of ResolvePair divided out; exact tells that every division
\* leaves no remainder.
PairAfter(a, b) ==
    LET r == ResolvePair(a, b)
    IN  [hit   |-> r.hit,
         a     |-> [a EXCEPT !.x = r.ax \div r.pden, !.y = r.ay \div r.pden,
                             !.dx = r.adx \div r.vden, !.dy = r.ady \div r.vden],
         b     |-> [b EXCEPT !.x = r.bx \div r.pden, !.y = r.by \div r.pden,
                             !.dx = r.bdx \div r.vden, !.dy = r.bdy \div r.vden],
         exact |-> /\ r.ax % r.pden = 0 /\ r.ay % r.pden = 0
                   /\ r.bx % r.pden = 0 /\ r.by % r.pden = 0
                   /\ r.adx % r.vden = 0 /\ r.ady % r.vden = 0
                   /\ r.bdx % r.vden = 0 /\ r.bdy % r.vden = 0]

\* The nested loops over the pairs i < j of the list, from the pair i, j on:
\* each pair is resolved on the objects as the pairs before it left them.
\* hits counts the pairs that were pushed apart.
RECURSIVE PairLoop(_, _, _)
PairLoop(st, i, j) ==
    IF i >= Len(st.objs) THEN st
    ELSE IF j > Len(st.objs) THEN PairLoop(st, i + 1, i + 2)
    ELSE LET r == PairAfter(st.objs[i], st.objs[j])
         IN  PairLoop([objs  |-> [st.objs EXCEPT ![i] = r.a, ![j] = r.b],
                       hits  |-> st.hits + (IF r.hit THEN 1 ELSE 0),
                       exact |-> st.exact /\ r.exact],
                      i, j + 1)

\* The movement of an object in a frame, away from the edges of the screen.
MovedObject(o) == [o EXCEPT !.x = o.x + o.dx, !.y = o.y + o.dy]

\* The object is further than half its size from every edge, where the
\* update of a frame does nothing but move it.
AwayFromEdges(o) ==
    /\ o.x > o.size \div 2 /\ o.x < InThirds(ScreenWidth) - o.size \div 2
    /\ o.y > o.size \div 2 /\ o.y < InThirds(ScreenHeight) - o.size \div 2

\* The pairs i < j of a list of n objects.
PairsOf(n) == {p \in (1..n) \X (1..n) : p[1] < p[2]}

\* The horizontal positions of the objects of a list, in thirds of a pixel:
\* an overlapping pair, a pair that touches, a pair apart, a row of three
\* that overlap their neighbours, a row whose third touches the second, and
\* an overlapping pair with a third object out of reach.
RowChoices ==
    {<<1000, 1512>>, <<1000, 1256>>, <<1000, 1800>>, <<900, 1900>>,
     <<600, 1240, 1752>>, <<600, 1100, 1900>>, <<500, 1012, 2000>>}

\* The objects of a list move side by side at the same velocity, one that
\* bounces and earlier pushes have left them with (a third of a pixel a
\* frame along each axis); the loop is at any frame of its count.
ThrottleInit ==
    \E row \in RowChoices, n \in CollisionFrequencies, dx \in {-1, 0, 1},
       dy \in {-1, 1} :
      \E f \in 0..(n - 1) :
        LET objs == [i \in 1..Len(row) |->
                        [x |-> row[i], y |-> InThirds(ScreenHeight) \div 2,
                         dx |-> dx, dy |-> dy, mass |-> 50,
                         size |-> InThirds(SIZE)]]
            zero == [p \in PairsOf(Len(row)) |-> 0]
        IN  collision = [phase |-> "frames", objs |-> objs, moved |-> objs,
                         frame_count |-> f, collision_frequency |-> n,
                         frames |-> 0, resolved |-> FALSE, hits |-> 0,
                         runs |-> zero, prev_runs |-> zero]

\* One frame of the loop for the objects: they are moved, the collision
\* pass is made if the frame counter is a multiple of the frequency, and the
\* frame counter is incremented.  runs counts, for each pair, the frames in
\* a row at whose end the pair interpenetrates.
ThrottledFrame ==
    /\ collision.phase = "frames"
    /\ collision.frames < MaxThrottleFrames
    /\ LET moved == [i \in DOMAIN collision.objs |->
                        MovedObject(collision.objs[i])]
           check == CheckFrame(collision.frame_count,
                               collision.collision_frequency)
           pass  == PairLoop([objs |-> moved, hits |-> 0, exact |-> TRUE], 1, 2)
           after == IF check THEN pass.objs ELSE moved
       IN  /\ \A i \in DOMAIN moved : AwayFromEdges(moved[i])
           /\ check => pass.exact
           /\ collision' =
                  [collision EXCEPT
                      !.objs = after,
                      !.moved = moved,
                      !.resolved = check,
                      !.hits = IF check THEN pass.hits ELSE @,
                      !.frame_count = @ + 1,
                      !.frames = @ + 1,
                      !.prev_runs = collision.runs,
                      !.runs = [p \in DOMAIN @ |->
                                   IF Interpenetrate(after[p[1]], after[p[2]])
                                   THEN @[p] + 1 ELSE 0]]

(***************************************************************************)
(* LevelResourceManager objects (src/utils/level_resource_manager.py).     *)
(* The lists an object holds are kept in a heap and the object holds       *)
(* references to them, so that two objects sharing a list is a state the   *)
(* model can express; a list is allocated where the code creates one.      *)
(***************************************************************************)
VARIABLES
    heap,       \* the lists created so far: explosions, lasers and particles
                \* (durations), in order of creation
    managers,   \* the LevelResourceManager objects, NoManager before creation
    rm_last,    \* the last call: method, object and outcome ("True", "False",
                \* "None" for a method that returns nothing, "raised")
    rm_calls    \* number of calls made so far

resVars == <<heap, managers, rm_last, rm_calls>>

\* Number of LevelResourceManager objects created.
NumManagers == 2
\* Longest sequence of calls made on the objects.
MaxResourceCalls == 6
\* Largest duration handed to create_explosion, create_laser, create_particle.
MaxEffectDuration == 2
\* max_effects handed to the constructors.
CapExplosions == 2
CapLasers == 1
CapParticles == 2

ManagerIds == 1..NumManagers

NoManager == [exists |-> FALSE]

\* Mutant of NewList: the list created first is handed out again.
NewList_Shared(h) == 1

\* The reference of a list created now, the heap being h.
NewList(h) == Len(h) + 1

\* audio_manager is None.
NoAudioManager == [present |-> FALSE]

\* An AudioManager after its constructor: enabled, the mixer initialised or
\* not (pygame.mixer.init failed), nothing cached, no generation pending.
NewAudioManager(mixer_ok) ==
    [present |-> TRUE, enabled |-> TRUE, mixer_initialized |-> mixer_ok,
     cached |-> FALSE, pending |-> FALSE]

\* LevelResourceManager.__init__: the object after construction, e and l
\* being the references of its explosions and lasers lists.
NewManager(e, l) ==
    [exists |-> TRUE, initialized |-> FALSE,
     max_effects |-> [explosions |-> CapExplosions, lasers |-> CapLasers,
                      particles |-> CapParticles],
     explosions |-> e, lasers |-> l,
     audio_manager |-> NoAudioManager, particle_manager |-> 0,
     explosions_created |-> 0, particles_created |-> 0,
     sounds_played |-> 0, cleanup_calls |-> 0]

\* A list after an effect of duration d is added under the limit cap, the
\* oldest entry being dropped at the limit (pop(0)).
AddUnderLimit(list, cap, d) ==
    Append(IF Len(list) >= cap /\ list # <<>> THEN Tail(list) ELSE list, d)

\* ParticleManager.create_particle on a list of durations whose pool slots
\* are all listed: at the limit the first entry of least duration goes.
AddParticle(list, cap, d) ==
    IF Len(list) >= cap
    THEN LET i == MinPos(list)
         IN  SubSeq(list, 1, i - 1) \o SubSeq(list, i + 1, Len(list)) \o <<d>>
    ELSE Append(list, d)

\* AudioManager.play_pronunciation(text, language) called on A: the outcome.
\* Calling it on None raises AttributeError; played_ok tells whether playing
\* a cached sound succeeds (if not, the sound is generated anew).
PlayPronunciation(A, played_ok) ==
    IF ~A.present THEN "raised"
    ELSE IF ~A.enabled \/ ~A.mixer_initialized THEN "False"
    ELSE "True"

\* Mutant of PlayTargetSound: audio_manager is not tested against None.
PlayTargetSound_Unguarded(R, played_ok) ==
    IF ~R.initialized THEN "False"
    ELSE PlayPronunciation(R.audio_manager, played_ok)

\* play_target_sound(target): the outcome.
PlayTargetSound(R, played_ok) ==
    IF ~R.initialized \/ ~R.audio_manager.present THEN "False"
    ELSE PlayPronunciation(R.audio_manager, played_ok)

\* What a call leaves of the state of the system.
ResourceCall(op, i, result, h, R) ==
    /\ rm_calls < MaxResourceCalls
    /\ rm_calls' = rm_calls + 1
    /\ rm_last' = [op |-> op, on |-> i, result |-> result]
    /\ heap' = h
    /\ managers' = [managers EXCEPT ![i] = R]

\* LevelResourceManager(level_id, width, height, max_effects)
RM_Construct ==
    \E i \in ManagerIds :
        /\ ~managers[i].exists
        /\ LET e  == NewList(heap)
               h1 == Append(heap, <<>>)
               l  == NewList(h1)
               h2 == Append(h1, <<>>)
           IN  ResourceCall("__init__", i, "None", h2, NewManager(e, l))

\* initialize(): a new AudioManager and a new ParticleManager.
RM_Initialize ==
    \E i \in ManagerIds, mixer_ok \in BOOLEAN :
        /\ managers[i].exists
        /\ LET p == NewList(heap)
           IN  ResourceCall("initialize", i, "True", Append(heap, <<>>),
                   [managers[i] EXCEPT
                       !.audio_manager = NewAudioManager(mixer_ok),
                       !.particle_manager = p,
                       !.initialized = TRUE])

\* create_explosion(x, y, duration=d)
RM_CreateExplosion ==
    \E i \in ManagerIds, d \in 1..MaxEffectDuration :
        /\ managers[i].exists
        /\ LET R == managers[i]
           IN  IF ~R.initialized
               THEN ResourceCall("create_explosion", i, "False", heap, R)
               ELSE ResourceCall("create_explosion", i, "True",
                        [heap EXCEPT ![R.explosions] =
                            AddUnderLimit(@, R.max_effects.explosions, d)],
                        [R EXCEPT !.explosions_created = @ + 1])

\* create_laser(start_x, start_y, end_x, end_y, duration=d)
RM_CreateLaser ==
    \E i \in ManagerIds, d \in 1..MaxEffectDuration :
        /\ managers[i].exists
        /\ LET R == managers[i]
           IN  IF ~R.initialized
               THEN ResourceCall("create_laser", i, "False", heap, R)
               ELSE ResourceCall("create_laser", i, "True",
                        [heap EXCEPT ![R.lasers] =
                            AddUnderLimit(@, R.max_effects.lasers, d)],
                        R)

\* create_particle(x, y, color, size, dx, dy, duration=d)
RM_CreateParticle ==
    \E i \in ManagerIds, d \in 1..MaxEffectDuration :
        /\ managers[i].exists
        /\ LET R == managers[i]
           IN  IF ~R.initialized \/ R.particle_manager = 0
               THEN ResourceCall("create_particle", i, "None", heap, R)
               ELSE ResourceCall("create_particle", i, "True",
                        [heap EXCEPT ![R.particle_manager] =
                            AddParticle(@, R.max_effects.particles, d)],
                        [R EXCEPT !.particles_created = @ + 1])

\* play_target_sound(target): a cached sound is played, and dropped from the
\* cache if playing it fails; otherwise its generation is handed to the
\* executor.
RM_PlayTargetSound ==
    \E i \in ManagerIds, played_ok \in BOOLEAN :
        /\ managers[i].exists
        /\ LET R == managers[i]
               outcome == PlayTargetSound(R, played_ok)
               A == R.audio_manager
           IN  IF outcome # "True"
               THEN /\ played_ok
                    /\ ResourceCall("play_target_sound", i, outcome, heap, R)
               ELSE /\ ~A.cached => played_ok
                    /\ ResourceCall("play_target_sound", i, outcome, heap,
                           [R EXCEPT
                               !.sounds_played = @ + 1,
                               !.audio_manager =
                                   IF A.cached /\ played_ok THEN A
                                   ELSE [A EXCEPT !.cached = FALSE,
                                                  !.pending = TRUE]])

\* handle_audio_event(event) for the event a finished generation posts: the
\* sound is played and cached.
RM_HandleAudioEvent ==
    \E i \in ManagerIds :
        /\ managers[i].exists
        /\ managers[i].audio_manager.present
        /\ managers[i].audio_manager.pending
        /\ ResourceCall("handle_audio_event", i, "None", heap,
               [managers[i] EXCEPT !.audio_manager.pending = FALSE,
                                   !.audio_manager.cached = TRUE])

\* update_effects()
RM_UpdateEffects ==
    \E i \in ManagerIds :
        /\ managers[i].exists
        /\ LET R == managers[i]
           IN  IF ~R.initialized
               THEN ResourceCall("update_effects", i, "None", heap, R)
               ELSE ResourceCall("update_effects", i, "None",
                        [k \in 1..Len(heap) |->
                            IF k = R.explosions \/ k = R.lasers
                               \/ k = R.particle_manager
                            THEN AgeAndDrop(heap[k]) ELSE heap[k]],
                        R)

\* cleanup()
RM_Cleanup ==
    \E i \in ManagerIds :
        /\ managers[i].exists
        /\ LET R == managers[i]
           IN  IF ~R.initialized
               THEN ResourceCall("cleanup", i, "None", heap, R)
               ELSE ResourceCall("cleanup", i, "None",
                        [k \in 1..Len(heap) |->
                            IF k = R.explosions \/ k = R.lasers
                               \/ k = R.particle_manager
                            THEN <<>> ELSE heap[k]],
                        [R EXCEPT !.cleanup_calls = @ + 1,
                                  !.audio_manager = NoAudioManager,
                                  !.particle_manager = 0,
                                  !.initialized = FALSE])

\* A caller's assignment level_manager.audio_manager = None, and
\* audio_manager.set_enabled(False).
RM_AudioLost ==
    \E i \in ManagerIds, how \in {"None", "disabled"} :
        /\ managers[i].exists
        /\ managers[i].audio_manager.present
        /\ how = "disabled" => managers[i].audio_manager.enabled
        /\ ResourceCall(how, i, "None", heap,
               IF how = "None"
               THEN [managers[i] EXCEPT !.audio_manager = NoAudioManager]
               ELSE [managers[i] EXCEPT !.audio_manager.enabled = FALSE])

ResourcesInit ==
    /\ heap = <<>>
    /\ managers = [i \in ManagerIds |-> NoManager]
    /\ rm_last = [op |-> "none", on |-> 0, result |-> "None"]
    /\ rm_calls = 0

(***************************************************************************)
(* MultiTouchManager (src/super_student/core/managers/multi_touch.py) and  *)
(* the FINGERDOWN / FINGERUP branches of the event loops.  A dict is a     *)
(* function whose domain is its set of keys; a position is a label.        *)
(***************************************************************************)
\* Touch ids that occur.
NumTouchIds == 2
\* Largest number of FINGERDOWN events followed.
MaxTouches == 3
\* Last frame of a NumbersLevel run in which fingers touch the screen.
LastTouchFrame == 30
\* self._cooldown_duration, in milliseconds
cooldown_duration == 50

TouchIds == 1..NumTouchIds
\* Positions of a touch.
Points == {"p"}
\* clock.tick(50): frames per second, and the milliseconds a frame takes.
FPS == 50
FrameMs == 1000 \div FPS
\* Milliseconds by which the clock has advanced when the next event is handled.
TickSteps == {cooldown_duration - 1, cooldown_duration}

\* MultiTouchManager.__init__; the clock of pygame.time starts at 0.  last is
\* the last call with its result, events the number of FINGERDOWN events.
NewTouchManager ==
    [ticks |-> 0, active_touches |-> <<>>, touch_cooldown |-> <<>>,
     last |-> [op |-> "none", id |-> 0, accepted |-> FALSE], events |-> 0]

\* d[k] = v
DictSet(d, k, v) == [i \in DOMAIN d \cup {k} |-> IF i = k THEN v ELSE d[i]]

\* d.pop(k, None)
DictPop(d, k) == [i \in DOMAIN d \ {k} |-> d[i]]

\* MultiTouchManager.reset
TouchReset(T) == [T EXCEPT !.active_touches = <<>>, !.touch_cooldown = <<>>]

\* Mutant of HandleTouchDown: the cooldown of any id suppresses the touch.
HandleTouchDown_AnyId(T, id, at, now) ==
    IF \E k \in DOMAIN T.touch_cooldown :
           now - T.touch_cooldown[k] < cooldown_duration
    THEN [T EXCEPT !.ticks = now, !.events = @ + 1,
                   !.last = [op |-> "down", id |-> id, accepted |-> FALSE]]
    ELSE [T EXCEPT !.ticks = now, !.events = @ + 1,
                   !.touch_cooldown = DictSet(@, id, now),
                   !.active_touches = DictSet(@, id, at),
                   !.last = [op |-> "down", id |-> id, accepted |-> TRUE]]

\* MultiTouchManager.handle_touch_down(event) at the time now: accepted is
\* FALSE if None is returned.
HandleTouchDown(T, id, at, now) ==
    IF /\ id \in DOMAIN T.touch_cooldown
       /\ now - T.touch_cooldown[id] < cooldown_duration
    THEN [T EXCEPT !.ticks = now, !.events = @ + 1,
                   !.last = [op |-> "down", id |-> id, accepted |-> FALSE]]
    ELSE [T EXCEPT !.ticks = now, !.events = @ + 1,
                   !.touch_cooldown = DictSet(@, id, now),
                   !.active_touches = DictSet(@, id, at),
                   !.last = [op |-> "down", id |-> id, accepted |-> TRUE]]

\* MultiTouchManager.handle_touch_up(event)
HandleTouchUp(T, id) ==
    [T EXCEPT !.active_touches = DictPop(@, id),
              !.last = [op |-> "up", id |-> id,
                        accepted |-> id \in DOMAIN T.active_touches]]

\* game_loop("numbers") or game_loop("colors") is entered: besides the
\* resets of GameLoopStart and ColorsStart, multi_touch_manager.reset() is
\* called.
TouchRunStart ==
    /\ \/ GameLoopStart /\ mode' = "numbers" /\ UNCHANGED colors
       \/ ColorsStart /\ UNCHANGED level
    /\ touch' = TouchReset(touch)
    /\ UNCHANGED program

\* A FINGERDOWN event in the event loop of NumbersLevel: a suppressed touch is skipped, an accepted one is handled as a click.
FingerDown ==
    /\ pc = "run"
    /\ mode = "numbers"
    /\ level.running
    /\ level.frame_count % InputPeriod = 0
    /\ level.frame_count <= LastTouchFrame
    /\ touch.events < MaxTouches
    /\ \E id \in TouchIds, at \in Points, dt \in TickSteps :
        LET T == HandleTouchDown(touch, id, at, touch.ticks + dt)
        IN  /\ touch' = T
            /\ IF T.last.accepted
               THEN Click
               ELSE /\ seen' = [seen EXCEPT !.last_input = "suppressed"]
                    /\ UNCHANGED <<pc, mode, level, effects, glass>>
    /\ UNCHANGED <<program, colors>>

\* A FINGERDOWN event in the event loop of ColorsLevel.
ColorsFingerDown ==
    /\ pc = "run"
    /\ mode = "colors"
    /\ colors.running
    /\ touch.events < MaxTouches
    /\ \E id \in TouchIds, at \in Points, dt \in TickSteps :
        LET T == HandleTouchDown(touch, id, at, touch.ticks + dt)
        IN  /\ touch' = T
            /\ IF T.last.accepted
               THEN ColorsClickDot \/ ColorsMisclick
               ELSE /\ seen' = [seen EXCEPT !.last_input = "suppressed"]
                    /\ UNCHANGED <<pc, mode, colors, effects, glass>>
    /\ UNCHANGED <<program, level>>

\* A FINGERUP event in either event loop, for the finger that was put down
\* last.
FingerUp ==
    /\ pc = "run"
    /\ mode = "numbers" =>
           /\ level.frame_count % InputPeriod = 0
           /\ level.frame_count <= LastTouchFrame
    /\ touch.last.op = "down"
    /\ touch' = HandleTouchUp(touch, touch.last.id)
    /\ UNCHANGED gameVars

\* A frame of NumbersLevel.run with the time it takes; the run is followed
\* for InputPeriod frames after the last touch.
TouchFrame ==
    /\ level.frame_count < LastTouchFrame + InputPeriod
    /\ NumbersFrame
    /\ touch' = [touch EXCEPT !.ticks = @ + FrameMs]
    /\ UNCHANGED <<program, colors>>

(***************************************************************************)
(* AudioManager (src/utils/audio_manager.py) with its TTS worker threads.  *)
(* The game thread ("main") makes the calls; the workers of the executor   *)
(* ("w1", "w2") run _generate_and_play_async.  A with-block on _cache_lock *)
(* is three steps: the lock is taken, the body runs, the lock is released; *)
(* the threads that have begun a change of sound_cache or of               *)
(* cache_access_times and not yet left the block are recorded in inside.   *)
(* cache_access_times is kept as the list of its keys from the oldest time *)
(* to the newest.                                                          *)
(***************************************************************************)
\* cache_limit handed to the constructor.
AudioCacheLimit == 1
\* max_workers handed to the constructor.
Workers == {"w1", "w2"}
\* The cache keys (text and language) of the sounds asked for.
CacheKeys == {"a", "b"}
\* Longest sequence of calls made by the game thread.
MaxAudioCalls == 4

\* The manager after the constructor and initialize(): enabled, the mixer
\* initialised, nothing cached, no task submitted, no event posted.
NewAudio ==
    [enabled |-> TRUE, mixer_initialized |-> TRUE,
     sound_cache |-> {}, cache_access_times |-> <<>>,
     lock |-> "free", inside |-> {},
     main |-> [pc |-> "idle", key |-> "", blocking |-> FALSE, from |-> "none"],
     tasks |-> <<>>,
     workers |-> [w \in Workers |-> [pc |-> "idle", key |-> ""]],
     events |-> <<>>, calls |-> 0]

\* del d[key] on the list of the keys of cache_access_times.
WithoutKey(ks, key) == SelectSeq(ks, LAMBDA k : k # key)

\* _cleanup_old_sounds(): the oldest quarter of the sounds, one at least, is
\* removed.
CleanupOldSounds(A) ==
    IF A.cache_access_times = <<>> THEN A
    ELSE LET n    == Max(1, Len(A.cache_access_times) \div 4)
             gone == {A.cache_access_times[k] : k \in 1..n}
         IN  [A EXCEPT !.sound_cache = @ \ gone,
                       !.cache_access_times =
                           SubSeq(@, n + 1, Len(A.cache_access_times))]

\* _add_to_cache(cache_key, sound)
AddToCache(A, key) ==
    LET A1 == IF Cardinality(A.sound_cache) >= AudioCacheLimit
              THEN CleanupOldSounds(A) ELSE A
    IN  [A1 EXCEPT !.sound_cache = @ \cup {key},
                   !.cache_access_times = Append(WithoutKey(@, key), key)]

\* `with self._cache_lock:` entered by thread t.
EnterLock(A, t) == [A EXCEPT !.lock = t]

\* The end of the with-block of thread t.
LeaveLock(A, t) == [A EXCEPT !.lock = "free", !.inside = @ \ {t}]

\* The game thread is between two calls.
MainIdle == audio.main.pc = "idle" /\ audio.calls < MaxAudioCalls

\* play_pronunciation(text, language, blocking) up to the with-block.
AM_PlayPronunciation ==
    /\ MainIdle
    /\ audio.enabled /\ audio.mixer_initialized
    /\ audio.lock = "free"
    /\ \E key \in CacheKeys, blocking \in BOOLEAN :
           audio' = [EnterLock(audio, "main") EXCEPT
                        !.calls = @ + 1,
                        !.main = [pc |-> "pp_locked", key |-> key,
                                  blocking |-> blocking, from |-> "play"]]

\* The body of the with-block of play_pronunciation: a cached sound is played
\* and its access time renewed, or, if playing it raises, its entry removed.
AM_PlayCached ==
    /\ audio.main.pc = "pp_locked"
    /\ LET key == audio.main.key
       IN  IF key \in audio.sound_cache
           THEN \E played \in BOOLEAN :
                    audio' =
                        IF played
                        THEN [audio EXCEPT
                                 !.inside = @ \cup {"main"},
                                 !.cache_access_times =
                                     Append(WithoutKey(@, key), key),
                                 !.main.pc = "pp_return"]
                        ELSE [audio EXCEPT
                                 !.inside = @ \cup {"main"},
                                 !.sound_cache = @ \ {key},
                                 !.cache_access_times = WithoutKey(@, key),
                                 !.main.pc = "pp_missed"]
           ELSE audio' = [audio EXCEPT !.main.pc = "pp_missed"]

\* The end of the with-block of play_pronunciation: the call returns True
\* after a cached sound, generates the sound itself if blocking, and submits
\* _generate_and_play_async to the executor otherwise.
AM_PlayLeave ==
    /\ audio.main.pc \in {"pp_return", "pp_missed"}
    /\ LET A == LeaveLock(audio, "main")
       IN  audio' =
               IF audio.main.pc = "pp_return"
               THEN [A EXCEPT !.main.pc = "idle"]
               ELSE IF audio.main.blocking
               THEN [A EXCEPT !.main.pc = "generate", !.main.from = "sync"]
               ELSE [A EXCEPT !.main.pc = "idle",
                              !.tasks = Append(@, audio.main.key)]

\* preload_sounds([text]): the cache is read without the lock and a missing
\* sound generated on the game thread.
AM_PreloadSounds ==
    /\ MainIdle
    /\ audio.enabled /\ audio.mixer_initialized
    /\ \E key \in CacheKeys :
           /\ key \notin audio.sound_cache
           /\ audio' = [audio EXCEPT
                           !.calls = @ + 1,
                           !.main = [pc |-> "generate", key |-> key,
                                     blocking |-> TRUE, from |-> "preload"]]

\* _generate_audio on the game thread (_generate_and_play_sync,
\* preload_sounds): with a sound, the with-block around _add_to_cache is
\* entered; without one, or if playing it raises, the call returns.
AM_Generated ==
    /\ audio.main.pc = "generate"
    /\ \E sound \in BOOLEAN :
           IF sound
           THEN /\ audio.lock = "free"
                /\ audio' = [EnterLock(audio, "main") EXCEPT
                                !.main.pc = "add_locked"]
           ELSE audio' = [audio EXCEPT !.main.pc = "idle"]

\* handle_audio_event(event) for the oldest posted event: the sound is
\* played and the with-block around _add_to_cache entered; if playing
\* raises, nothing is cached.
AM_HandleAudioEvent ==
    /\ audio.main.pc = "idle"
    /\ audio.events # <<>>
    /\ \E played \in BOOLEAN :
           IF played
           THEN /\ audio.lock = "free"
                /\ audio' = [EnterLock(audio, "main") EXCEPT
                                !.events = Tail(@),
                                !.main = [pc |-> "add_locked",
                                          key |-> Head(audio.events),
                                          blocking |-> FALSE,
                                          from |-> "event"]]
           ELSE audio' = [audio EXCEPT !.events = Tail(@)]

\* The body of the with-block around _add_to_cache.
AM_AddToCache ==
    /\ audio.main.pc = "add_locked"
    /\ audio' = [AddToCache(audio, audio.main.key) EXCEPT
                    !.inside = @ \cup {"main"},
                    !.main.pc = "add_leave"]

\* clear_cache() up to the with-block.
AM_ClearCache ==
    /\ MainIdle
    /\ audio.sound_cache # {}
    /\ audio.lock = "free"
    /\ audio' = [EnterLock(audio, "main") EXCEPT
                    !.calls = @ + 1,
                    !.main = [pc |-> "clear_locked", key |-> "",
                              blocking |-> FALSE, from |-> "clear"]]

\* The body of the with-block of clear_cache.
AM_Cleared ==
    /\ audio.main.pc = "clear_locked"
    /\ audio' = [audio EXCEPT !.inside = @ \cup {"main"},
                              !.sound_cache = {},
                              !.cache_access_times = <<>>,
                              !.main.pc = "add_leave"]

\* The end of the with-blocks around _add_to_cache and of clear_cache.
AM_Leave ==
    /\ audio.main.pc = "add_leave"
    /\ audio' = [LeaveLock(audio, "main") EXCEPT !.main.pc = "idle"]

\* A worker of the executor takes the oldest submitted task.
AM_WorkerTake ==
    \E w \in Workers :
        /\ audio.workers[w].pc = "idle"
        /\ audio.tasks # <<>>
        /\ audio' = [audio EXCEPT
                        !.tasks = Tail(@),
                        !.workers[w] = [pc |-> "generating",
                                        key |-> Head(audio.tasks)]]

\* Mutant of AsyncGenerated: the worker caches the sound itself.
AsyncGenerated_Caches(A, w, sound) ==
    LET A1 == [A EXCEPT !.workers[w] = [pc |-> "idle", key |-> ""]]
    IN  IF sound
        THEN [AddToCache(A1, A.workers[w].key) EXCEPT !.inside = @ \cup {w}]
        ELSE A1

\* The end of _generate_and_play_async on worker w: with a sound, the event
\* carrying it is posted; the cache is left alone.
AsyncGenerated(A, w, sound) ==
    LET A1 == [A EXCEPT !.workers[w] = [pc |-> "idle", key |-> ""]]
    IN  IF sound
        THEN [A1 EXCEPT !.events = Append(@, A.workers[w].key)]
        ELSE A1

\* _generate_and_play_async on a worker thread.
AM_WorkerGenerated ==
    \E w \in Workers, sound \in BOOLEAN :
        /\ audio.workers[w].pc = "generating"
        /\ audio' = AsyncGenerated(audio, w, sound)

\* No game object has handled an error, no step raises, nothing was touched,
\* no sound was asked for.
AppIdle ==
    game = NewGame /\ faults = "none" /\ touch = NewTouchManager /\ audio = NewAudio

vars == <<pmVars, gameVars, physVars, resVars, appVars>>

\* No object is being moved, no resource manager has been created.
PhysIdle ==
    motion = NoMotion /\ collision = NoCollision /\ ResourcesInit /\ AppIdle

SpecParticlesInit == PMInit /\ GameInit /\ program = "legacy" /\ PhysIdle

\* One more call on the manager, while the sequence is not yet MaxCalls long.
PM_Call(op) ==
    /\ pm_calls < MaxCalls
    /\ pm_calls' = pm_calls + 1
    /\ op
    /\ UNCHANGED <<gameVars, physVars, resVars, appVars>>

SpecParticlesNext ==
    \/ PM_Call(PM_Create)
    \/ PM_Call(PM_Update)
    \/ PM_Call(PM_Release)
    \/ PM_Call(PM_SetAdaptiveQuality)
    \/ PM_Call(PM_Cleanup)

SpecParticles == SpecParticlesInit /\ [][SpecParticlesNext]_vars

SpecGameInit == GameInit /\ PMIdle /\ PhysIdle

\* A step of a group-based run, of a colours run, of the menu; the
\* stand-alone particle manager is not involved.
GroupStep(op) == op /\ UNCHANGED <<pmVars, physVars, resVars, appVars, program, colors>>

ColorsStep(op) == op /\ UNCHANGED <<pmVars, physVars, resVars, appVars, program, level>>

MenuStep(op) == op /\ UNCHANGED <<pmVars, physVars, resVars, appVars, program>>

\* A step of the game object of main.py.
MainStep(op) ==
    op /\ UNCHANGED <<pmVars, physVars, resVars, program, colors, faults, touch,
                    audio>>

SpecGameNext ==
    \/ GroupStep(GameLoopStart)
    \/ MainStep(RunLevelStart)
    \/ GroupStep(Click)
    \/ GroupStep(Quit)
    \/ GroupStep(NumbersFrame)
    \/ GroupStep(LegacyFrame)
    \/ ColorsStep(ColorsStart)
    \/ ColorsStep(ColorsClickDot)
    \/ ColorsStep(ColorsMisclick)
    \/ ColorsStep(ColorsFrame)
    \/ MenuStep(ReturnToMenu)

SpecGame == SpecGameInit /\ [][SpecGameNext]_vars

\* Runs in which a step of the frame raises every time, and the error
\* handling of the game object.
SpecErrorsInit ==
    /\ GameInit /\ PMIdle
    /\ motion = NoMotion /\ collision = NoCollision /\ ResourcesInit
    /\ game = NewGame
    /\ faults \in FaultSites
    /\ touch = NewTouchManager
    /\ audio = NewAudio

SpecErrorsNext ==
    \/ GroupStep(GameLoopStart)
    \/ MainStep(RunLevelStart)
    \/ MainStep(HandleErrorCall)
    \/ GroupStep(Quit)
    \/ GroupStep(NumbersFrame)
    \/ GroupStep(LegacyFrame)
    \/ MenuStep(ReturnToMenu)

SpecErrors == SpecErrorsInit /\ [][SpecErrorsNext]_vars

\* Runs played by touch.
TouchStep(op) == op /\ UNCHANGED <<pmVars, physVars, resVars, game, faults, audio>>

SpecTouchInit == SpecGameInit /\ program = "legacy"

SpecTouchNext ==
    \/ TouchStep(TouchRunStart)
    \/ TouchStep(FingerDown)
    \/ TouchStep(ColorsFingerDown)
    \/ TouchStep(FingerUp)
    \/ TouchStep(TouchFrame)
    \/ ColorsStep(ColorsFrame)

SpecTouch == SpecTouchInit /\ [][SpecTouchNext]_vars

\* Runs of a player who only misclicks.
SpecGameOverInit == SpecGameInit /\ program = "legacy"

SpecGameOverNext ==
    \/ GroupStep(GameLoopStart)
    \/ GroupStep(MissClick)
    \/ GroupStep(NumbersFrame)
    \/ GroupStep(LegacyFrame)
    \/ ColorsStep(ColorsStart)
    \/ ColorsStep(ColorsMissClick)
    \/ ColorsStep(ColorsFrame)
    \/ MenuStep(ReturnToMenu)

SpecGameOver == SpecGameOverInit /\ [][SpecGameOverNext]_vars

\* Runs over configured sequences and groups, empty ones included.
SpecGroupsInit == SpecGameInit /\ program = "legacy"

SpecGroupsNext ==
    \/ GroupStep(ConfiguredGameLoopStart)
    \/ GroupStep(NumbersRunStart)
    \/ GroupStep(Click)
    \/ GroupStep(Quit)
    \/ GroupStep(NumbersFrame)
    \/ GroupStep(LegacyFrame)
    \/ MenuStep(ReturnToMenu)

SpecGroups == SpecGroupsInit /\ [][SpecGroupsNext]_vars

\* The update loop applied to one object.
SpecMotionInit ==
    /\ PMIdle /\ GameInit /\ program = "legacy"
    /\ MotionInit
    /\ collision = NoCollision
    /\ ResourcesInit
    /\ AppIdle

SpecMotionNext ==
    UpdateNumbers /\ UNCHANGED <<pmVars, gameVars, collision, resVars, appVars>>

SpecMotion == SpecMotionInit /\ [][SpecMotionNext]_vars

\* The fall of one object from its spawn, with the pushes of explosions.
SpecFallInit ==
    /\ PMIdle /\ GameInit /\ program = "legacy"
    /\ FallInit
    /\ collision = NoCollision
    /\ ResourcesInit
    /\ AppIdle

SpecFallNext ==
    \/ FallFrame /\ UNCHANGED <<pmVars, gameVars, collision, resVars, appVars>>
    \/ FallPush /\ UNCHANGED <<pmVars, gameVars, collision, resVars, appVars>>

SpecFall == SpecFallInit /\ [][SpecFallNext]_vars

\* The collision resolver applied to one pair.
SpecCollisionInit ==
    /\ PMIdle /\ GameInit /\ program = "legacy"
    /\ CollisionInit \/ DotCollisionInit
    /\ motion = NoMotion
    /\ ResourcesInit
    /\ AppIdle

SpecCollisionNext ==
    \/ HandleNumberCollisions /\ UNCHANGED <<pmVars, gameVars, motion, resVars, appVars>>
    \/ HandleDotCollisions /\ UNCHANGED <<pmVars, gameVars, motion, resVars, appVars>>

SpecCollision == SpecCollisionInit /\ [][SpecCollisionNext]_vars

\* A NumbersLevel run of a player who does not quit, the loop running its
\* frames for as long as it can.
NumbersStart ==
    program = "legacy" /\ pc = "menu" /\ GameLoop("numbers", SEQUENCES("numbers"))

\* The click or touch that starts the game.
StartClick == GroupStep(Click) /\ ~level.game_started

\* A click or touch that destroys the target.
TargetClick == GroupStep(Click) /\ seen'.last_input = "target"

\* A frame of a run that still waits for its first input, the player having
\* let MaxMissed chances pass: nothing is spawned and nothing but the frame
\* counter changes, so the run is where it was InputPeriod frames before and
\* the counter is folded back by one period.
WaitingFrame ==
    /\ pc = "run"
    /\ mode = "numbers"
    /\ level.running
    /\ ~level.game_started
    /\ ~Patient(seen, level)
    /\ level' = [level EXCEPT !.frame_count = @ - InputPeriod + 1]
    /\ UNCHANGED <<pc, mode, effects, glass, seen>>

SpecProgressInit == SpecGameInit /\ program = "legacy"

SpecProgressNext ==
    \/ GroupStep(NumbersStart)
    \/ GroupStep(Click)
    \/ GroupStep(NumbersFrame)
    \/ GroupStep(WaitingFrame)

SpecProgress ==
    /\ SpecProgressInit /\ [][SpecProgressNext]_vars
    /\ WF_vars(GroupStep(NumbersStart))
    /\ WF_vars(GroupStep(NumbersFrame))
    /\ WF_vars(GroupStep(WaitingFrame))

\* The calls of the game thread on an AudioManager, and its worker threads.
AudioStep(op) ==
    op /\ UNCHANGED <<pmVars, gameVars, physVars, resVars, game, faults, touch>>

SpecAudioInit == SpecGameInit /\ program = "main"

SpecAudioNext ==
    \/ AudioStep(AM_PlayPronunciation)
    \/ AudioStep(AM_PlayCached)
    \/ AudioStep(AM_PlayLeave)
    \/ AudioStep(AM_PreloadSounds)
    \/ AudioStep(AM_Generated)
    \/ AudioStep(AM_HandleAudioEvent)
    \/ AudioStep(AM_AddToCache)
    \/ AudioStep(AM_ClearCache)
    \/ AudioStep(AM_Cleared)
    \/ AudioStep(AM_Leave)
    \/ AudioStep(AM_WorkerTake)
    \/ AudioStep(AM_WorkerGenerated)

SpecAudio == SpecAudioInit /\ [][SpecAudioNext]_vars

\* A long run of the colours level.
SpecRoundsInit == SpecGameInit /\ program = "legacy"

SpecRoundsNext ==
    \/ ColorsStep(ColorsStart)
    \/ ColorsStep(ColorsGuidedClick)
    \/ ColorsStep(ColorsLateClick)
    \/ ColorsStep(ColorsFrame)

SpecRounds == SpecRoundsInit /\ [][SpecRoundsNext]_vars

\* A colours run with the arming of the dot collisions.
SpecArmingInit == SpecGameInit /\ program = "legacy"

ArmingStep(op) == op /\ UNCHANGED <<pmVars, motion, resVars, appVars, program, level>>

SpecArmingNext ==
    \/ ArmingStep(ArmedStart)
    \/ ArmingStep(ArmedClick)
    \/ ArmingStep(ArmedFrame)

SpecArming == SpecArmingInit /\ [][SpecArmingNext]_vars

\* The collision pass over the frames of a loop.
SpecThrottleInit ==
    /\ PMIdle /\ GameInit /\ program = "legacy"
    /\ ThrottleInit
    /\ motion = NoMotion
    /\ ResourcesInit
    /\ AppIdle

SpecThrottleNext ==
    ThrottledFrame /\ UNCHANGED <<pmVars, gameVars, motion, resVars, appVars>>

SpecThrottle == SpecThrottleInit /\ [][SpecThrottleNext]_vars

\* Calls on the LevelResourceManager objects.
SpecResourcesInit ==
    /\ PMIdle /\ GameInit /\ program = "legacy"
    /\ PhysIdle

ResourceStep(op) == op /\ UNCHANGED <<pmVars, gameVars, physVars, appVars>>

SpecResourcesNext ==
    \/ ResourceStep(RM_Construct)
    \/ ResourceStep(RM_Initialize)
    \/ ResourceStep(RM_CreateExplosion)
    \/ ResourceStep(RM_CreateLaser)
    \/ ResourceStep(RM_CreateParticle)
    \/ ResourceStep(RM_PlayTargetSound)
    \/ ResourceStep(RM_HandleAudioEvent)
    \/ ResourceStep(RM_UpdateEffects)
    \/ ResourceStep(RM_Cleanup)
    \/ ResourceStep(RM_AudioLost)

SpecResources == SpecResourcesInit /\ [][SpecResourcesNext]_vars

\* The effect collections: create_explosion of the legacy program, and the
\* lists of the LevelResourceManager objects.
SpecEffectsInit == PMIdle /\ GameInit /\ PhysIdle

SpecEffectsNext ==
    \/ GroupStep(CreateExplosionCall)
    \/ GroupStep(ProcessExplosionsCall)
    \/ program = "main" /\ ResourceStep(RM_Construct)
    \/ program = "main" /\ ResourceStep(RM_Initialize)
    \/ program = "main" /\ ResourceStep(RM_CreateExplosion)
    \/ program = "main" /\ ResourceStep(RM_CreateLaser)
    \/ program = "main" /\ ResourceStep(RM_UpdateEffects)

SpecEffects == SpecEffectsInit /\ [][SpecEffectsNext]_vars

----------------------------------------------------------------------------
\* C1: the number of active particles (len(particles), get_active_count)
\* never exceeds max_particles, after any sequence of create_particle,
\* update, release_particle, set_adaptive_quality and cleanup calls.
C1_PoolBound == Len(particles) <= max_particles

\* C1 witness: a create_particle call at capacity has evicted and stored, so
\* the list is full right after a successful create.
C1_Witness ==
    /\ max_particles >= 2
    /\ Len(particles) = max_particles
    /\ pm_result = "handle"

\* Cumulative number of destroyed targets of the run: every destruction adds
\* 10 to the score.
Destroyed(L) == L.score \div 10

InGroupRun == pc = "run" /\ mode \in {"numbers", "clcase"}

\* C2: in a group-based level (NumbersLevel, legacy game_loop) the target is
\* the head of the remaining-targets list whenever that list is not empty,
\* and every frame draws in the target colour only live objects whose value is
\* the head of the list at that draw (so at most one value is marked).
C2_TargetInvariant ==
    /\ (InGroupRun /\ level.numbers_to_target # <<>>)
           => level.target_number = Head(level.numbers_to_target)
    /\ InGroupRun =>
           /\ Cardinality(seen.drawn_target) <= 1
           /\ seen.targets_at_draw # <<>> =>
                  /\ seen.shown_target = Head(seen.targets_at_draw)
                  /\ seen.drawn_target \subseteq {Head(seen.targets_at_draw)}
           /\ seen.targets_at_draw = <<>> => seen.drawn_target = {}

\* C2 witness: after a destruction a frame has drawn the new target in the
\* target colour next to another live object.
C2_Witness ==
    /\ InGroupRun
    /\ level.score >= 10
    /\ seen.last_input = "frame"
    /\ seen.drawn_target = {level.target_number}
    /\ Len(level.numbers) >= 2

\* C3: a checkpoint is announced (checkpoint_waiting turns True; in the
\* colours level _handle_checkpoint is called) only when the cumulative
\* destroyed count is a positive multiple of 10, once per multiple, and none
\* is skipped: every frame of a group-based level, and every step of the
\* colours level, ends with one announcement made for each multiple of 10
\* reached so far.
C3_CheckpointCadence ==
    [][ /\ seen'.checkpoints <= Destroyed(level') \div 10
        /\ seen'.checkpoints # seen.checkpoints =>
               \/ seen'.checkpoints = 0
               \/ /\ seen'.checkpoints = seen.checkpoints + 1
                  /\ Destroyed(level') > 0
                  /\ Destroyed(level') % 10 = 0
        /\ seen'.last_input = "frame" =>
               seen'.checkpoints = Destroyed(level') \div 10
        /\ colors'.checkpoint_calls = colors'.overall_destroyed \div 10
        /\ colors'.checkpoint_calls # colors.checkpoint_calls =>
               \/ colors'.checkpoint_calls = 0
               \/ /\ colors'.checkpoint_calls = colors.checkpoint_calls + 1
                  /\ colors'.overall_destroyed = colors.overall_destroyed + 1
                  /\ colors'.overall_destroyed % 10 = 0 ]_vars

\* C3 witness: the legacy loop has announced its second checkpoint, at 20
\* destroyed targets.
C3_Witness ==
    /\ mode = "clcase"
    /\ seen.checkpoints = 2
    /\ Destroyed(level) = 20

\* C4: the crack count never decreases within a level run, and every start
\* of a level run (game_loop or run_level) invokes the reset of the
\* GlassShatterManager and leaves the count at 0.
C4_CrackReset ==
    [][ /\ (pc = "run" /\ pc' = "run") => glass'.cracks >= glass.cracks
        /\ seen'.last_input = "start_run" =>
               seen'.reset_at_start /\ glass'.cracks = 0 ]_vars

\* C5: a click or touch on the target object of a group-based level adds 10
\* to the score, removes exactly that object from the live set, removes the
\* head of the remaining targets and makes the next element the target, adds
\* 1 to the group's destroyed counter and creates one explosion and one burst
\* of particles.
C5_TargetHit ==
    [][ seen'.last_input = "target" =>
           /\ level'.score = level.score + 10
           /\ Len(level'.numbers) = Len(level.numbers) - 1
           /\ \A i \in 1..Len(level.numbers) :
                  level.numbers[i].value # level.target_number
                      => \E j \in 1..Len(level'.numbers) :
                             level'.numbers[j] = level.numbers[i]
           /\ \A j \in 1..Len(level'.numbers) :
                  level'.numbers[j].value # level.target_number
           /\ level'.numbers_to_target = Tail(level.numbers_to_target)
           /\ level'.numbers_to_target # <<>> =>
                  level'.target_number = level.numbers_to_target[2]
           /\ level'.numbers_destroyed = level.numbers_destroyed + 1
           /\ effects'.explosions_created = effects.explosions_created + 1
           /\ effects'.particles_created = effects.particles_created + BURST_SIZE
      ]_vars

\* C5 witness: the target has just been destroyed by a click that also lay
\* in another object, which is still live.
C5_Witness ==
    /\ InGroupRun
    /\ seen.last_input = "target"
    /\ level.numbers # <<>>
    /\ level.numbers_to_target # <<>>
    /\ effects.shake_magnitude = 3

\* C6: once play has started, a click or touch in no live object and no
\* alive dot is forwarded once to handle_misclick (one more crack) and
\* changes neither the score, the live set nor the target tracking.
C6_Misclick ==
    [][ seen'.last_input = "miss" =>
           /\ seen'.misclick_calls = seen.misclick_calls + 1
           /\ glass'.cracks = glass.cracks + 1
           /\ level' = level
           /\ colors' = colors ]_vars

\* C6 witness: a misclick has been made while objects were live.
C6_Witness ==
    /\ seen.last_input = "miss"
    /\ glass.cracks = 1
    /\ level.numbers # <<>>

\* C7: the click that brings current_color_dots_destroyed to 5 switches the
\* colour: the new mother colour is one not in used_colors (or, when every
\* colour has been used, any colour but the current one, the tracking
\* restarting from the current colour), the counter returns to 0 and every
\* alive dot is a target exactly when it has the new mother colour.
C7_ColourSwitch ==
    [][ ( /\ seen'.last_input = "target_dot"
          /\ colors.current_color_dots_destroyed + 1 = DOTS_PER_SWITCH ) =>
           LET used == {colors.used_colors[k] : k \in 1..Len(colors.used_colors)}
               n    == colors'.color_idx
           IN  /\ IF used # ColorIndices
                  THEN /\ n \notin used
                       /\ colors'.used_colors = Append(colors.used_colors, n)
                  ELSE /\ n # colors.color_idx
                       /\ colors'.used_colors = <<colors.color_idx, n>>
               /\ colors'.current_color_dots_destroyed = 0
               /\ \A i \in 1..Len(colors'.dots) :
                      colors'.dots[i].alive =>
                          (colors'.dots[i].target <=> colors'.dots[i].color = n)
      ]_vars

\* C7 witness: the 25th dot has been destroyed after every colour had been
\* used, and the tracking has restarted from the colour left.
C7_Witness ==
    /\ mode = "colors"
    /\ seen.last_input = "target_dot"
    /\ colors.overall_destroyed = 25
    /\ colors.current_color_dots_destroyed = 0
    /\ Len(colors.used_colors) = 2

\* The edges the moved object of the update is found at.
Moved == [x |-> motion.before.x + motion.before.dx,
          y |-> motion.before.y + motion.before.dy]

Bounces == motion.phase = "after" /\ motion.after.can_bounce

AtLeft == Bounces /\ Moved.x <= HalfSize

AtRight == Bounces /\ ~AtLeft /\ Moved.x >= WIDTH - HalfSize

AtTop == Bounces /\ Moved.y <= HalfSize

AtBottom == Bounces /\ ~AtTop /\ Moved.y >= HEIGHT - HalfSize

InsideScreen ==
    /\ motion.after.x >= HalfSize
    /\ motion.after.x <= WIDTH - HalfSize
    /\ motion.after.y >= HalfSize
    /\ motion.after.y <= HEIGHT - HalfSize

C9_MomentumSymmetry ==
    (collision.phase = "after" /\ collision.result.hit) =>
        LET a == collision.a
            b == collision.b
            r == collision.result
        IN  /\ a.mass * (r.adx - a.dx * r.vden)
                   + b.mass * (r.bdx - b.dx * r.vden) = 0
            /\ a.mass * (r.ady - a.dy * r.vden)
                   + b.mass * (r.bdy - b.dy * r.vden) = 0

\* C9 witness: a pair of unequal masses has been resolved and the velocity
\* of the first object has changed on both axes.
C9_Witness ==
    /\ collision.phase = "after"
    /\ collision.result.hit
    /\ collision.a.mass # collision.b.mass
    /\ collision.result.adx # collision.a.dx * collision.result.vden
    /\ collision.result.ady # collision.a.dy * collision.result.vden

\* C10: create_particle never raises, whatever the pool capacity.
C10_NeverRaises == pm_result # "raised"

\* C11: a create_particle call that finds the active list at capacity (and
\* not empty: the empty list of a manager of capacity 0 is the case of C10)
\* takes exactly one entry out of the list, one of smallest remaining
\* duration among the entries, and then stores the new particle at the end
\* of the list; a call returns None only if it leaves no pool slot free.
C11_EvictsOldest ==
    [][ (pm_calls' = pm_calls + 1 /\ pm_result' \in {"handle", "none"}) =>
           /\ (Len(particles) >= max_particles /\ particles # <<>>) =>
                  /\ pm_result' = "handle"
                  /\ \E i \in 1..Len(particles), g \in 1..Len(particle_pool) :
                         /\ \A j \in 1..Len(particles) :
                                particle_pool[particles[j]].duration
                                    >= particle_pool[particles[i]].duration
                         /\ particles' = SubSeq(particles, 1, i - 1)
                                \o SubSeq(particles, i + 1, Len(particles))
                                \o <<g>>
                         /\ particle_pool'[g].active
                         /\ particle_pool'[g].duration = particle_pool'[g].start_duration
           /\ pm_result' = "none" =>
                  /\ particles' = particles
                  /\ \A i \in 1..Len(particle_pool') : particle_pool'[i].active
      ]_vars

\* C11 witness: the third call on a manager of capacity 2 has evicted the
\* second particle, of duration 1, and kept the first, of duration 2.
C11_Witness ==
    /\ max_particles = 2
    /\ pm_calls = 3
    /\ pm_result = "handle"
    /\ particles = <<1, 2>>
    /\ particle_pool[1].duration = 2
    /\ particle_pool[1].start_duration = 2

\* C12: an update call moves every particle of the active list by its
\* velocity and takes 1 from its duration; a particle whose duration has
\* reached 0 or that has left [-culling_distance, 2 * culling_distance] is
\* deactivated and out of the list after that call, every other one stays.
C12_UpdateLifecycle ==
    [][ (pm_calls' = pm_calls + 1 /\ pm_result' = "updated") =>
           \A k \in 1..Len(particles) :
               LET i == particles[k]
                   p == particle_pool[i]
                   q == particle_pool'[i]
                   listed == \E j \in 1..Len(particles') : particles'[j] = i
               IN  p.active =>
                       /\ q.x = p.x + p.dx
                       /\ q.y = p.y + p.dy
                       /\ q.duration = p.duration - 1
                       /\ IF q.duration <= 0 \/ ~InBounds(q, culling_distance)
                          THEN ~q.active /\ ~listed
                          ELSE q.active /\ listed
      ]_vars

\* The effects a LevelResourceManager object holds.
ActiveEffects(R, h) ==
    [explosions |-> h[R.explosions], lasers |-> h[R.lasers],
     particles  |-> IF R.particle_manager = 0 THEN <<>>
                    ELSE h[R.particle_manager]]

\* C13: a call on one LevelResourceManager object leaves the explosions,
\* lasers and particles of every other object as they were.
C13_Isolation ==
    [][ rm_calls' = rm_calls + 1 =>
           \A j \in ManagerIds :
               (managers[j].exists /\ rm_last'.on # j) =>
                   /\ managers'[j].exists
                   /\ ActiveEffects(managers'[j], heap')
                          = ActiveEffects(managers[j], heap) ]_vars

\* C13 witness: the first object has been cleaned up after use while the
\* second one holds an explosion.
C13_Witness ==
    /\ rm_last.op = "cleanup"
    /\ rm_last.on = 1
    /\ managers[1].cleanup_calls = 1
    /\ managers[2].exists
    /\ heap[managers[2].explosions] # <<>>

\* Audio is unavailable to the object R.
AudioUnavailable(R) ==
    \/ ~R.initialized
    \/ ~R.audio_manager.present
    \/ ~R.audio_manager.enabled
    \/ ~R.audio_manager.mixer_initialized

\* C16: play_target_sound never raises, in any state the object can be in;
\* when audio is unavailable it returns False and changes nothing.
C16_SoundNeverRaises ==
    [][ (rm_calls' = rm_calls + 1 /\ rm_last'.op = "play_target_sound") =>
           /\ rm_last'.result \in {"True", "False"}
           /\ AudioUnavailable(managers[rm_last'.on]) =>
                  /\ rm_last'.result = "False"
                  /\ managers' = managers
                  /\ heap' = heap ]_vars

\* C16 witness: play_target_sound has returned on an initialized object
\* whose audio manager is disabled, while the object holds an explosion.
C16_Witness ==
    /\ rm_last.op = "play_target_sound"
    /\ rm_last.result = "False"
    /\ managers[rm_last.on].initialized
    /\ managers[rm_last.on].audio_manager.present
    /\ ~managers[rm_last.on].audio_manager.enabled
    /\ heap[managers[rm_last.on].explosions] # <<>>

\* C17: on an initialized object whose audio_manager has been set to None,
\* play_target_sound returns True.
C17_DegradesToTrue ==
    ( /\ rm_last.op = "play_target_sound"
      /\ managers[rm_last.on].initialized
      /\ ~managers[rm_last.on].audio_manager.present )
        => rm_last.result = "True"

\* C19: when a NumbersLevel run has ended, by exhausting its groups or by
\* the menu choice at a checkpoint, cleanup() has been called on its
\* LevelResourceManager, which holds no explosions, lasers or particles.
C19_CleanupOnComplete ==
    (pc = "ended" /\ mode = "numbers") =>
        /\ ~effects.lrm_initialized
        /\ effects.lrm_explosions = <<>>
        /\ effects.lrm_lasers = <<>>
        /\ effects.lrm_particles = <<>>

\* C19 witness: the run has ended in the frame after the last target of the
\* last group was destroyed, whose explosion and particles were in flight.
C19_Witness ==
    /\ pc = "ended"
    /\ mode = "numbers"
    /\ seen.last_input = "frame"
    /\ level.current_group_index = Len(Groups("numbers"))
    /\ effects.explosions_created = Len(SEQUENCES("numbers"))
    /\ level.frame_count % InputPeriod = 0

\* C20: once MAX_CRACKS cracks have been made the screen is GameOverReady;
\* no level completes a frame and plays on in that state, and a run that
\* observed it has called the game-over screen.
C20_GameOverEndsRun ==
    /\ glass.cracks >= MAX_CRACKS => IsGameOverReady(glass)
    /\ (pc = "run" /\ seen.last_input = "frame") => ~IsGameOverReady(glass)
    /\ (pc = "ended" /\ IsGameOverReady(glass)) => seen.game_over_calls = 1

\* C14: every handle_error call adds exactly 1 to error_count; running is
\* True while error_count is below max_errors and False from then on, also
\* after further calls.
C14_ErrorThreshold ==
    /\ game.error_count = game.handled
    /\ game.running <=> game.error_count < max_errors

\* C14 witness: handle_error has been called once more after the call that
\* reached max_errors.
C14_Witness ==
    /\ game.handled = max_errors + 1
    /\ ~game.running

\* C15: a level run in which a step raises in every frame does not go on
\* once more than max_errors errors have occurred in it.
C15_ErrorsEndLevel ==
    (pc = "run" /\ faults # "none") => seen.frame_errors <= max_errors

\* The FINGERDOWN handled by the step arrives within the cooldown of the
\* last accepted FINGERDOWN of the same id.
InCooldown ==
    /\ touch'.last.id \in DOMAIN touch.touch_cooldown
    /\ touch'.ticks - touch.touch_cooldown[touch'.last.id] < cooldown_duration

\* C18: a FINGERDOWN less than 50 ms after the last accepted FINGERDOWN of
\* its id is suppressed: None is returned, the active touches and the
\* cooldowns are unchanged and the level does nothing for it (no score, no
\* object removed, no misclick); a FINGERDOWN that is not within the
\* cooldown of its own id is accepted, whatever the other ids did.
C18_TouchCooldown ==
    [][ touch'.events = touch.events + 1 =>
           IF InCooldown
           THEN /\ ~touch'.last.accepted
                /\ touch'.active_touches = touch.active_touches
                /\ touch'.touch_cooldown = touch.touch_cooldown
                /\ level' = level
                /\ colors' = colors
                /\ effects' = effects
                /\ glass' = glass
                /\ seen'.misclick_calls = seen.misclick_calls
           ELSE /\ touch'.last.accepted
                /\ touch'.touch_cooldown[touch'.last.id] = touch'.ticks ]_vars

\* C18 witness: a touch was suppressed in a started NumbersLevel while an
\* object was on screen and another finger was down.
C18_Witness ==
    /\ mode = "numbers"
    /\ level.game_started
    /\ Drawn(level) # {}
    /\ seen.last_input = "suppressed"
    /\ touch.last.op = "down"
    /\ ~touch.last.accepted
    /\ DOMAIN touch.touch_cooldown = TouchIds

\* The group the loop is playing is empty, or there are no groups at all.
PlaysEmpty(L) ==
    \/ L.groups = <<>>
    \/ /\ L.current_group_index < Len(L.groups)
       /\ L.groups[L.current_group_index + 1] = <<>>

\* The group the progression step is about to start is empty.
NextIsEmpty(L) ==
    /\ GroupFinished(L)
    /\ L.current_group_index + 1 < Len(L.groups)
    /\ L.groups[L.current_group_index + 2] = <<>>

\* C21: with an empty sequence, or an empty group to be started, the run
\* returns False and ends the level without spawning an object and without
\* raising: game_loop returns False from the menu before its loop (which is
\* never entered on an empty group), and a NumbersLevel whose group to play
\* or to start is empty has spawned nothing for it and returns False on the
\* frame that finds it.
C21_EmptyEndsRun ==
    /\ [](pc = "run" /\ mode = "clcase" => ~PlaysEmpty(level))
    /\ [](pc = "run" /\ mode = "numbers" /\ PlaysEmpty(level)
            => level.numbers = <<>> /\ level.numbers_spawned = 0)
    /\ [][ /\ (pc = "menu" /\ pc' = "ended")
               => /\ seen'.returned = "False"
                  /\ level' = NoLevel
                  /\ ~seen'.raised
           /\ ( /\ pc = "run" /\ mode \in {"numbers", "clcase"}
                /\ PlaysEmpty(level) \/ NextIsEmpty(level)
                /\ seen'.last_input = "frame" )
               => /\ pc' = "ended"
                  /\ seen'.returned = "False"
                  /\ level'.numbers_spawned = level.numbers_spawned
                  /\ level'.numbers = <<>>
                  /\ ~seen'.raised
                  /\ seen'.frame_errors = seen.frame_errors ]_vars

\* A run over an empty configuration has just returned False.
C21_Witness ==
    /\ pc = "ended"
    /\ seen.returned = "False"
    /\ seen.last_input = "frame"
    /\ mode = "numbers"
    /\ level.groups = <<>>
    /\ level.numbers_spawned = 0
\* The list after the call is the list before it, less one entry if it was
\* at the cap, with the new effect at its end.
StoredUnder(old, new, cap, evicted) ==
    /\ new # <<>>
    /\ Len(new) <= cap
    /\ IF Len(old) >= cap
       THEN /\ evicted \in 1..Len(old)
            /\ SubSeq(new, 1, Len(new) - 1)
                 = SubSeq(old, 1, evicted - 1) \o SubSeq(old, evicted + 1, Len(old))
       ELSE SubSeq(new, 1, Len(new) - 1) = old

C22_WitnessManager ==
    /\ rm_last.op = "create_explosion"
    /\ rm_last.result = "True"
    /\ LET list == heap[managers[rm_last.on].explosions]
       IN  /\ Len(list) = managers[rm_last.on].max_effects.explosions
           /\ managers[rm_last.on].explosions_created
                  > managers[rm_last.on].max_effects.explosions
           /\ list[1] < list[Len(list)]
\* C23: a click or touch on a live object that is not the target (in colours
\* mode, on an alive non-target dot) triggers a minor shake and no crack:
\* handle_misclick is not called, and the score, the live objects and the
\* target tracking stay as they were.
C23_NonTargetShake ==
    [][/\ seen'.last_input = "other"
           => /\ effects'.shake_duration = 5
              /\ effects'.shake_magnitude = 3
              /\ glass' = glass
              /\ seen'.misclick_calls = seen.misclick_calls
              /\ level' = level
       /\ seen'.last_input = "other_dot"
           => /\ effects'.shake_duration > 0
              /\ glass' = glass
              /\ seen'.misclick_calls = seen.misclick_calls
              /\ colors' = colors ]_vars
\* The explosions of the running level.
ActiveExplosions(m, F) == IF m = "numbers" THEN F.lrm_explosions ELSE F.explosions

\* C24: a pending checkpoint is shown only in a frame in which the settle
\* delay of CHECKPOINT_DELAY frames has elapsed and at most one explosion and
\* one flamethrower of the running level are active and no convergence is in
\* flight; until then play continues.  In particular the screen is never
\* shown by the step that made the checkpoint due.
C24_CheckpointSettle ==
    [][/\ ( /\ pc = "run" /\ mode \in {"numbers", "clcase"}
             /\ level.checkpoint_waiting /\ ~level'.checkpoint_waiting )
            => LET F == IF mode = "numbers" THEN effects ELSE effects'
               IN  /\ level.checkpoint_delay_frames <= 0
                   /\ Len(ActiveExplosions(mode, F)) <= 1
                   /\ Len(F.flamethrowers) <= 1
                   /\ F.convergence_timer = 0 \/ mode = "clcase"
       /\ ( /\ pc = "run" /\ mode \in {"numbers", "clcase"}
            /\ level.checkpoint_waiting /\ level'.checkpoint_waiting )
            => pc' = "run" /\ level'.running
       /\ ( /\ pc = "run" /\ mode = "colors"
            /\ colors'.checkpoint_calls = colors.checkpoint_calls + 1 )
            => /\ seen'.last_input = "frame"
               /\ colors'.total_dots_destroyed = colors.total_dots_destroyed
      ]_vars

\* The part of C24 that concerns the falling-object levels.
C24_GroupLevels ==
    [][/\ ( /\ pc = "run" /\ mode \in {"numbers", "clcase"}
             /\ level.checkpoint_waiting /\ ~level'.checkpoint_waiting )
            => LET F == IF mode = "numbers" THEN effects ELSE effects'
               IN  /\ level.checkpoint_delay_frames <= 0
                   /\ Len(ActiveExplosions(mode, F)) <= 1
                   /\ Len(F.flamethrowers) <= 1
                   /\ F.convergence_timer = 0 \/ mode = "clcase"
       /\ ( /\ pc = "run" /\ mode \in {"numbers", "clcase"}
            /\ level.checkpoint_waiting /\ level'.checkpoint_waiting )
            => pc' = "run" /\ level'.running
      ]_vars
\* C25: the level advances to the next group exactly in a frame that finds
\* the live set, the spawn queue and the remaining-targets list empty; the
\* finished group's destroyed count is added to the running total, both
\* queues are loaded with the next group in order, the per-group counters
\* are reset to 0 and the target is the new head; when the last group is
\* exhausted the completion screen is shown exactly once and the run ends
\* (return to the menu).
C25_GroupProgression ==
    /\ [](seen.completion_screens <= 1)
    /\ [](seen.completion_screens = 1 =>
            pc = "ended" /\ level.current_group_index = Len(level.groups))
    /\ []((pc = "ended" /\ mode \in {"numbers", "clcase"}
             /\ level.current_group_index = Len(level.groups)
             /\ level.groups # <<>>)
            => seen.completion_screens = 1 /\ ~level.running)
    /\ [][ (pc = "run" /\ mode \in {"numbers", "clcase"}) =>
           /\ level'.current_group_index # level.current_group_index
               => /\ seen'.last_input = "frame"
                  /\ GroupFinished(level)
                  /\ level'.current_group_index = level.current_group_index + 1
                  /\ level'.total_destroyed
                         = level.total_destroyed + level.numbers_destroyed
                  /\ IF level'.current_group_index < Len(level.groups)
                     THEN LET grp == level.groups[level'.current_group_index + 1]
                          IN  /\ pc' = "run"
                              /\ level'.numbers_to_spawn = grp
                              /\ level'.numbers_to_target = grp
                              /\ level'.target_number = grp[1]
                              /\ level'.numbers_spawned = 0
                              /\ level'.numbers_destroyed = 0
                     ELSE /\ pc' = "ended"
                          /\ seen'.completion_screens = seen.completion_screens + 1
           /\ (seen'.last_input = "frame" /\ GroupFinished(level))
               => \/ level'.current_group_index = level.current_group_index + 1
                  \/ pc' = "ended"
         ]_vars

\* C25 witness: a run has completed its last group after advancing through
\* the groups before it, and the completion screen has been shown.
C25_Witness ==
    /\ pc = "ended"
    /\ Len(level.groups) > 1
    /\ level.current_group_index = Len(level.groups)
    /\ level.total_destroyed = Len(SEQUENCES(mode))
    /\ seen.completion_screens = 1
\* The frame about to run spawns: play is started, the spawn queue is not
\* empty and the frame counter is a multiple of LETTER_SPAWN_INTERVAL.
SpawnDue(L) ==
    /\ L.game_started
    /\ L.numbers_to_spawn # <<>>
    /\ L.frame_count % LETTER_SPAWN_INTERVAL = 0

\* C26: a frame spawns exactly when play is started, the spawn queue is not
\* empty and the frame counter is a multiple of LETTER_SPAWN_INTERVAL (60);
\* it then moves exactly the head of the queue to the live set.  No other
\* frame and no other step spawns, so the objects of a group appear in the
\* group's order: what is still queued is the group less its first
\* numbers_spawned values.
C26_SpawnCadence ==
    /\ []((pc = "run" /\ mode \in {"numbers", "clcase"}) =>
            LET grp == level.groups[level.current_group_index + 1]
            IN  /\ level.numbers_spawned <= Len(grp)
                /\ level.numbers_to_spawn
                       = SubSeq(grp, level.numbers_spawned + 1, Len(grp)))
    /\ [][ (pc = "run" /\ mode \in {"numbers", "clcase"}) =>
           IF seen'.last_input = "frame" /\ SpawnDue(level)
           THEN /\ level'.numbers_spawned = level.numbers_spawned + 1
                /\ pc' = "run" =>
                     /\ level'.numbers_to_spawn = Tail(level.numbers_to_spawn)
                     /\ Len(level'.numbers) = Len(level.numbers) + 1
                     /\ level'.numbers[Len(level'.numbers)].value
                            = Head(level.numbers_to_spawn)
                     /\ \A i \in 1..Len(level.numbers) :
                            level'.numbers[i].value = level.numbers[i].value
           ELSE /\ level'.numbers_spawned \in {level.numbers_spawned, 0}
                /\ Len(level'.numbers) <= Len(level.numbers)
                /\ \/ level'.numbers_to_spawn = level.numbers_to_spawn
                   \/ level.numbers_to_spawn = <<>>
                   \/ pc' = "ended"
         ]_vars

\* C26 witness: the second object of a group has been spawned by the frame
\* numbered LETTER_SPAWN_INTERVAL, and the first is still alive.
C26_Witness ==
    /\ pc = "run"
    /\ seen.last_input = "frame"
    /\ level.frame_count = LETTER_SPAWN_INTERVAL + 1
    /\ level.numbers_spawned = 2
    /\ Len(level.numbers) = 2
\* The run is waiting for its first click or touch.
AwaitingFirstInput ==
    pc = "run" /\ mode \in {"numbers", "clcase"} /\ ~level.game_started

\* C27: from the start of a run until the first click or touch nothing is
\* spawned and no crack is added; the first click or touch sets game_started
\* and does nothing else: it is not hit-tested and is not a misclick.
C27_AwaitingFirstInput ==
    /\ [](AwaitingFirstInput =>
            /\ level.numbers = <<>>
            /\ level.numbers_spawned = 0
            /\ level.score = 0
            /\ glass.cracks = 0
            /\ seen.misclick_calls = 0)
    /\ [][ (AwaitingFirstInput /\ level'.game_started) =>
              /\ level' = [level EXCEPT !.game_started = TRUE]
              /\ effects' = effects
              /\ glass' = glass
              /\ seen'.misclick_calls = 0
              /\ pc' = "run" ]_vars

\* C27 witness: the first click has come after spawn frames went by with
\* nothing spawned.
C27_Witness ==
    /\ pc = "run"
    /\ seen.last_input = "start"
    /\ level.game_started
    /\ level.frame_count >= LETTER_SPAWN_INTERVAL
    /\ level.numbers_spawned = 0
    /\ glass.cracks = 0
\* C28: can_bounce is false from the spawn of an object until its y exceeds
\* one fifth of the screen height; while it is false the object is moved by
\* its velocity and neither reflected nor clamped; once true it stays true.
C28_BounceGate ==
    [][/\ (~motion.after.can_bounce /\ motion'.after.can_bounce)
           => motion'.after.y > (ScreenHeight \div 5) * PX
       /\ (motion'.last = "update" /\ ~motion'.after.can_bounce)
           => /\ motion'.after.x = motion.after.x + motion.after.dx
              /\ motion'.after.y = motion.after.y + motion.after.dy
              /\ motion'.after.dx = motion.after.dx
              /\ motion'.after.dy = motion.after.dy
       /\ motion.after.can_bounce => motion'.after.can_bounce
      ]_vars
\* C29: a pair at exactly the same position is not a collision, for falling
\* objects and for colours dots alike: the resolver leaves the positions and
\* the velocities of both as they were.
C29_CoincidentNoCollision ==
    (/\ collision.phase \in {"after", "dots_after"}
     /\ collision.a.x = collision.b.x
     /\ collision.a.y = collision.b.y)
    => LET r == collision.result
       IN  /\ ~r.hit
           /\ r.ax = collision.a.x * r.pden /\ r.ay = collision.a.y * r.pden
           /\ r.bx = collision.b.x * r.pden /\ r.by = collision.b.y * r.pden
           /\ r.adx = collision.a.dx * r.vden /\ r.ady = collision.a.dy * r.vden
           /\ r.bdx = collision.b.dx * r.vden /\ r.bdy = collision.b.dy * r.vden

\* The part of C29 that concerns the falling objects.
C29_FallingObjects ==
    (/\ collision.phase = "after"
     /\ collision.a.x = collision.b.x
     /\ collision.a.y = collision.b.y)
    => LET r == collision.result
       IN  /\ ~r.hit
           /\ r.ax = collision.a.x * r.pden /\ r.ay = collision.a.y * r.pden
           /\ r.bx = collision.b.x * r.pden /\ r.by = collision.b.y * r.pden
           /\ r.adx = collision.a.dx * r.vden /\ r.ady = collision.a.dy * r.vden
           /\ r.bdx = collision.b.dx * r.vden /\ r.bdy = collision.b.dy * r.vden
Lasting(ds) == Len(SelectSeq(ds, LAMBDA d : d >= 1))

\* C31: an effect that has time left at the start of a frame is drawn in that
\* frame, the frame in which its duration reaches zero included: no update
\* step removes it before the frame is drawn.
C31_DrawThenExpire ==
    [][/\ pc = "run" /\ pc' = "run" /\ mode \in {"numbers", "clcase"}
       /\ seen'.last_input = "frame" /\ faults = "none"
       => /\ seen'.effects_drawn.legacy = Lasting(effects.explosions)
          /\ mode = "numbers"
              => seen'.effects_drawn.lrm = Lasting(effects.lrm_explosions)
                                           + Lasting(effects.lrm_lasers)]_vars

\* The legacy half of C31 alone: the explosion loop of both frame loops draws
\* every explosion that has time left.
C31_LegacyDrawn ==
    [][/\ pc = "run" /\ pc' = "run" /\ mode \in {"numbers", "clcase"}
       /\ seen'.last_input = "frame" /\ faults = "none"
       => seen'.effects_drawn.legacy = Lasting(effects.explosions)]_vars

\* A frame of the colours loop that ends and leaves the loop running.
ColorsFrameStep ==
    /\ mode = "colors" /\ pc = "run" /\ pc' = "run"
    /\ seen'.last_input = "frame"

\* C32: a frame of the colours loop that finds target_dots_left at or below
\* zero generates a new round: the alive dots are kept in their order and
\* the dead ones dropped, the list is filled up to TOTAL_DOTS dots, all
\* alive, the mother colour is a new one, a dot is a target exactly if it has
\* the mother colour, and target_dots_left is the number of target dots, at
\* least one.
C32_Regeneration ==
    [][/\ ColorsFrameStep
       /\ colors.target_dots_left <= 0
       => LET kept == SelectSeq(colors.dots, LAMBDA d : d.alive)
              n    == colors'.color_idx
              ds   == colors'.dots
          IN  /\ Len(ds) = TOTAL_DOTS
              /\ \A i \in 1..Len(ds) : ds[i].alive
              /\ \A i \in 1..Len(kept) : ds[i].color = kept[i].color
              /\ n # colors.color_idx
              /\ \A i \in 1..Len(ds) : ds[i].target <=> ds[i].color = n
              /\ colors'.target_dots_left =
                     Cardinality({i \in 1..Len(ds) : ds[i].target})
              /\ colors'.target_dots_left >= 1]_vars

\* A frame has generated a new round.
C32_Witness ==
    /\ mode = "colors" /\ pc = "run"
    /\ seen.last_input = "frame"
    /\ colors.total_dots_destroyed > 0
    /\ Len(colors.dots) = TOTAL_DOTS
    /\ \A i \in 1..Len(colors.dots) : colors.dots[i].alive

\* C33: the dot collisions are disabled when the loop starts and when a
\* round is generated; a frame handles collisions exactly if, with it,
\* COLORS_COLLISION_DELAY frame updates or more have been counted since
\* then; enabled collisions have the counter at 0 and stay enabled until a
\* round is generated.
C33_CollisionArming ==
    [][/\ collision.phase = "arming" /\ collision'.phase = "arming"
       /\ collision'.frames = collision.frames + 1
       => /\ collision'.resolved
                 <=> collision.since + 1 >= COLORS_COLLISION_DELAY
          /\ collision'.resolved => collision.collision_enabled
                                    \/ collision.since + 1 = COLORS_COLLISION_DELAY
          /\ IF colors.target_dots_left <= 0
             THEN /\ ~collision'.collision_enabled
                  /\ collision'.collision_delay_counter = 0
                  /\ collision'.since = 0
             ELSE /\ collision'.collision_enabled = collision'.resolved
                  /\ collision.collision_enabled => collision'.collision_enabled
          /\ collision'.collision_enabled
                 => collision'.collision_delay_counter = 0
          /\ ~collision'.collision_enabled
                 => collision'.collision_delay_counter = collision'.since]_vars

\* The collisions have been enabled a second time, COLORS_COLLISION_DELAY
\* frames after a round was generated.
C33_Witness ==
    /\ collision.phase = "arming"
    /\ collision.collision_enabled /\ collision.resolved
    /\ collision.since = COLORS_COLLISION_DELAY
    /\ collision.frames > collision.since

\* s is what is left of g after some of its first elements were taken.
IsSuffix(s, g) ==
    /\ Len(s) <= Len(g)
    /\ s = SubSeq(g, Len(g) - Len(s) + 1, Len(g))

\* C34: while a NumbersLevel run goes on, the spawn queue and the remaining
\* targets are suffixes of the current group, the spawn queue is no longer
\* than the remaining targets, the live objects carry exactly the values
\* that are remaining targets and no longer in the spawn queue, each once,
\* and numbers_spawned - numbers_destroyed is the number of live objects.
C34_GroupBookkeeping ==
    (pc = "run" /\ mode = "numbers" /\ level.running) =>
        LET g      == level.groups[level.current_group_index + 1]
            spawn  == level.numbers_to_spawn
            target == level.numbers_to_target
            out    == Len(target) - Len(spawn)
        IN  /\ IsSuffix(spawn, g)
            /\ IsSuffix(target, g)
            /\ Len(spawn) <= Len(target)
            /\ Len(level.numbers) = out
            /\ {level.numbers[i].value : i \in 1..Len(level.numbers)}
                   = {target[i] : i \in 1..out}
            /\ level.numbers_spawned - level.numbers_destroyed
                   = Len(level.numbers)

\* In the second group an object has been destroyed, two are live and the
\* spawn queue is not empty.
C34_Witness ==
    /\ pc = "run" /\ mode = "numbers" /\ level.running
    /\ level.current_group_index = 1
    /\ level.numbers_destroyed >= 1
    /\ Len(level.numbers) >= 2
    /\ level.numbers_to_spawn # <<>>

\* The target of a NumbersLevel run is on the screen or in the spawn queue.
TargetInPlay ==
    (pc = "run" /\ mode = "numbers" /\ level.running
         /\ level.numbers_to_target # <<>>) =>
        \/ \E i \in 1..Len(level.numbers) :
               level.numbers[i].value = level.target_number
        \/ \E i \in 1..Len(level.numbers_to_spawn) :
               level.numbers_to_spawn[i] = level.target_number

\* The run has shown the completion screen and ended, every group consumed
\* and as many objects destroyed as the sequence has.
RunCompleted ==
    /\ pc = "ended" /\ mode = "numbers"
    /\ seen.completion_screens = 1
    /\ level.current_group_index = Len(level.groups)
    /\ level.total_destroyed = Len(SEQUENCES("numbers"))

\* C35: the target of a NumbersLevel run is always on the screen or in the
\* spawn queue; if the frames keep running and the player does not quit,
\* gives the input that starts the game and clicks the target again and
\* again while it is on the screen, the run completes, every group consumed
\* and len(sequence) objects destroyed.
C35_Progress ==
    /\ []TargetInPlay
    /\ (SF_vars(StartClick) /\ SF_vars(TargetClick)) => <>RunCompleted

\* The run has completed.
C35_Witness == RunCompleted /\ seen.last_input = "frame"

\* C35 as stated, with a player of whom only the clicks on the target are
\* required.
C35_ProgressUnprompted ==
    /\ []TargetInPlay
    /\ SF_vars(TargetClick) => <>RunCompleted

\* Number of alive dots of the mother colour.
AliveOfMotherColor(C) ==
    Cardinality({i \in 1..Len(C.dots) :
                    C.dots[i].alive /\ C.dots[i].color = C.color_idx})

\* C36: throughout the main loop of the colours level, from the first frame
\* on, target_dots_left is the number of alive dots of the mother colour, and
\* an alive dot is flagged target iff its colour is the mother colour.
C36_TargetCount ==
    (pc = "run" /\ mode = "colors" /\ colors.running) =>
        /\ colors.target_dots_left = AliveOfMotherColor(colors)
        /\ \A i \in 1..Len(colors.dots) :
               colors.dots[i].alive =>
                   (colors.dots[i].target <=>
                        colors.dots[i].color = colors.color_idx)

\* The flags alone: an alive dot is flagged target iff its colour is the
\* mother colour.
C36_TargetFlags ==
    (pc = "run" /\ mode = "colors" /\ colors.running) =>
        \A i \in 1..Len(colors.dots) :
            colors.dots[i].alive =>
                (colors.dots[i].target <=>
                     colors.dots[i].color = colors.color_idx)

\* The colours of a sequence of colour indices.
ColorsOf(us) == {us[k] : k \in 1..Len(us)}

\* A step of the main loop of the colours level that chooses a mother colour.
ChoosesColor ==
    /\ pc = "run" /\ mode = "colors" /\ pc' = "run" /\ mode' = "colors"
    /\ colors'.used_colors # colors.used_colors

\* C37: throughout the main loop of the colours level used_colors has no
\* duplicates and ends with the current colour index; a mother colour chosen
\* by a colour switch or by a regeneration differs from the one before it and
\* was not in used_colors when chosen, and is appended to used_colors, except
\* that once all colours have been used used_colors restarts from the colour
\* before it.
C37_ColorRotation ==
    [][/\ (pc' = "run" /\ mode' = "colors") =>
              /\ Cardinality(ColorsOf(colors'.used_colors)) =
                     Len(colors'.used_colors)
              /\ colors'.used_colors # <<>>
              /\ colors'.used_colors[Len(colors'.used_colors)] =
                     colors'.color_idx
       /\ ChoosesColor =>
              /\ colors'.color_idx # colors.color_idx
              /\ IF ColorsOf(colors.used_colors) = ColorIndices
                 THEN colors'.used_colors =
                          <<colors.color_idx, colors'.color_idx>>
                 ELSE /\ colors'.color_idx \notin ColorsOf(colors.used_colors)
                      /\ colors'.used_colors =
                             Append(colors.used_colors, colors'.color_idx)]_vars

\* A regeneration has chosen the mother colour after the tracking of the
\* used colours had restarted, every dot alive.
C37_Witness ==
    /\ pc = "run" /\ mode = "colors" /\ seen.last_input = "frame"
    /\ colors.total_dots_destroyed >= DOTS_PER_SWITCH * NUM_COLORS
    /\ Len(colors.dots) = TOTAL_DOTS
    /\ \A i \in 1..Len(colors.dots) : colors.dots[i].alive
    /\ Len(colors.used_colors) >= 2
    /\ colors.current_color_dots_destroyed > 0

\* C38: in the main loop of the colours level current_color_dots_destroyed
\* is the number of dots destroyed since the mother colour became the mother
\* colour: it lies in 0..4 between clicks, is 0 when a colour switch or a
\* regeneration has chosen the mother colour, and grows by one with each dot
\* destroyed under the same mother colour, so that the switch after 5
\* destructions never comes early.
C38_PerColorCounter ==
    [][(pc = "run" /\ mode = "colors" /\ pc' = "run" /\ mode' = "colors") =>
           /\ colors'.current_color_dots_destroyed \in
                  0..(DOTS_PER_SWITCH - 1)
           /\ ChoosesColor => colors'.current_color_dots_destroyed = 0
           /\ (~ChoosesColor /\ colors'.total_dots_destroyed =
                                    colors.total_dots_destroyed + 1) =>
                  colors'.current_color_dots_destroyed =
                      colors.current_color_dots_destroyed + 1]_vars

\* The range alone: between clicks the counter lies in 0..4.
C38_CounterRange ==
    (pc = "run" /\ mode = "colors") =>
        colors.current_color_dots_destroyed \in 0..(DOTS_PER_SWITCH - 1)

\* The pool has max_particles entries.
PoolSizeKept == Len(particle_pool) = max_particles

\* A pool entry is flagged active iff the active list refers to it.
ActiveIffListed ==
    \A i \in 1..Len(particle_pool) :
        particle_pool[i].active <=>
            \E k \in 1..Len(particles) : particles[k] = i

\* The active list refers to every entry at most once.
ListedOnce ==
    \A j, k \in 1..Len(particles) : particles[j] = particles[k] => j = k

\* create_particle hands out a particle when the pool has an entry.
CreateNeverNone == max_particles >= 1 => pm_result # "none"

\* C39: after any sequence of create_particle, update, release_particle,
\* set_adaptive_quality and cleanup calls the pool has max_particles
\* entries, a pool entry is flagged active iff it is in the active list, the
\* active list holds every entry at most once, and create_particle returns a
\* particle whenever max_particles is at least 1.
C39_Bookkeeping ==
    /\ PoolSizeKept
    /\ ActiveIffListed
    /\ ListedOnce
    /\ CreateNeverNone

\* The threads inside a change of the cache hold _cache_lock, so there is at
\* most one, and it is the game thread.
CacheExclusion ==
    /\ Cardinality(audio.inside) <= 1
    /\ \A t \in audio.inside : audio.lock = t
    /\ audio.inside \subseteq {"main"}

\* A step that changes sound_cache or cache_access_times.
CacheChanged ==
    \/ audio'.sound_cache # audio.sound_cache
    \/ audio'.cache_access_times # audio.cache_access_times

\* A step of a worker thread.
WorkerStep == audio'.workers # audio.workers

\* C40: sound_cache and cache_access_times change only while _cache_lock is
\* held by the thread that changes them, so no two threads are inside a
\* change of the cache at once; a worker thread leaves the cache alone and at
\* most posts an event, and a sound generated by a worker enters the cache
\* only in handle_audio_event on the game thread.
C40_CacheExclusion ==
    /\ []CacheExclusion
    /\ [][/\ CacheChanged =>
                 /\ audio.lock = "main" /\ audio'.lock = "main"
                 /\ "main" \in audio'.inside
                 /\ ~WorkerStep
          /\ WorkerStep =>
                 /\ audio'.inside = audio.inside
                 /\ audio'.lock = audio.lock
                 /\ \/ audio'.events = audio.events
                    \/ \E w \in Workers :
                           /\ audio.workers[w].pc = "generating"
                           /\ audio'.events =
                                  Append(audio.events, audio.workers[w].key)
          /\ (audio'.main.from = "event" /\ audio'.main.pc = "add_leave"
                  /\ audio.main.pc = "add_locked") =>
                 audio'.main.key \in audio'.sound_cache]_vars

\* The game thread is inside the with-block of handle_audio_event, the
\* sound of the event cached, while a worker generates another sound.
C40_Witness ==
    /\ audio.inside = {"main"} /\ audio.lock = "main"
    /\ audio.main.from = "event" /\ audio.main.pc = "add_leave"
    /\ audio.main.key \in audio.sound_cache
    /\ \E w \in Workers : audio.workers[w].pc = "generating"

====
